---- MODULE Spec2Model ----
(***************************************************************************)
(* The manual DOM editor of the extension (src/core/manual/                *)
(* manual-editor.ts) together with the content script that starts and      *)
(* stops it (src/chrome/content.ts), as a state machine over a small       *)
(* document.                                                               *)
(*                                                                         *)
(* The document is a tree of nodes.  A node's content is a sequence of     *)
(* items, each a text node or an element.  Elements carry an attribute     *)
(* map and a style attribute.  The page is                                 *)
(*                                                                         *)
(*     html --> head, body       body --> D                                *)
(*     D    --> "a", S, C, E     C    --> "b"                              *)
(*                                                                         *)
(* where S is an <svg> element (an Element that is no HTMLElement) and E   *)
(* an empty <div>.  The                                                    *)
(* editor adds its own nodes: a <style> in head, and the HUD, the          *)
(* highlight box and the panel in body.  The panel's subtree is kept       *)
(* abstract (one leaf with a fixed text); the HUD has its Exit button.     *)
(*                                                                         *)
(* The rest of the extension is modelled beside the editor, each part with *)
(* a specification of its own over the page at rest: runtime messaging and *)
(* the background worker (SpecMessaging), strategy execution and the view  *)
(* grid (SpecExecution), the side panel's listener (SpecSidePanel), and    *)
(* the stored strategies with the popup's execute button (SpecStorage).    *)
(***************************************************************************)
EXTENDS Integers, Sequences, FiniteSets, TLC

Null == "null"

PageNodes == {"html", "head", "body", "D", "S", "C", "E", "F"}
ChromeNodes == {"style", "hud", "hudExit", "box", "panel", "panelOld"}
Nodes == PageNodes \cup ChromeNodes

\* node instanceof HTMLElement: every modelled element but the <svg>
IsHTMLElement(n) == n # "S"

Txt(s) == [kind |-> "text", v |-> s]
El(n) == [kind |-> "elem", v |-> n]

EmptyAttrs == [a \in {} |-> ""]

HudId == "llm-manual-hud"
PanelId == "llm-manual-editor"

----------------------------------------------------------------------------
(* Style attribute values.  A value is the attribute's string: the         *)
(* declarations it parses to, and whether the string is the author's own   *)
(* text (raw) or the serialisation the CSSOM writes after a property       *)
(* change.  The empty string has one representation.                       *)

StyleNone == [present |-> FALSE, raw |-> FALSE, decls |-> <<>>]
StyleRaw(d) == [present |-> TRUE, raw |-> d # <<>>, decls |-> d]
StyleCssom(d) == [present |-> TRUE, raw |-> FALSE, decls |-> d]

HasDecl(d, p) == \E i \in 1..Len(d) : d[i][1] = p
DeclValue(d, p) == IF HasDecl(d, p) THEN d[CHOOSE i \in 1..Len(d) : d[i][1] = p][2] ELSE ""

\* element.style.setProperty(p, v) for a valid value v
StyleSetProperty(sv, p, v) ==
  LET d == sv.decls
      nd == IF HasDecl(d, p)
            THEN [i \in 1..Len(d) |-> IF d[i][1] = p THEN <<p, v>> ELSE d[i]]
            ELSE Append(d, <<p, v>>)
  IN IF nd = d THEN sv ELSE StyleCssom(nd)

\* element.style.removeProperty(p)
StyleRemoveProperty(sv, p) ==
  LET d == sv.decls
      keep(x) == x[1] # p
  IN IF HasDecl(d, p) THEN StyleCssom(SelectSeq(d, keep)) ELSE sv

\* The modelled part of SNAPSHOT_PROPERTIES
SNAPSHOT_PROPERTIES == {"color", "font-size"}

----------------------------------------------------------------------------
VARIABLES
  content,          \* the document: node -> sequence of items
  attrs,            \* node -> attribute map (without style)
  styleAttr,        \* node -> style attribute value
  active,
  hoverElement,
  selectedElement,
  highlightBox,
  hud,
  editorPanel,
  styleElement,
  snapshot,
  toastElement,
  toastTimeout,     \* the timer of this.toastTimeout is pending
  toastText,
  toastVisible,
  boxDisplay,       \* the highlight box's display: "unset", "none", "block"
  boxRect,          \* the highlight box's top, left, width and height
  panelTheme,       \* panel.dataset.theme
  rows,             \* the child rows the panel lists (data-index 0 .. rows-1)
  listeners,        \* the global listeners registered on document and window
  pendingSaves,     \* SAVE_MANUAL_LAYOUT requests awaiting their response
  emitted,          \* the messages the last step sent with chrome.runtime.sendMessage
  reply,            \* the content script's answer, when the last step was a command
  rejected,         \* the promise of the last step's async handler rejected
  prefersLight,     \* window.matchMedia('(prefers-color-scheme: light)').matches
  edits,            \* the edits and gestures made so far (bounded by MaxEdits)
  session,          \* the kind of inputs the user makes in this run
  dockState,
  panelPosition,
  panelSize,
  dragOffset,
  dragging,         \* the header's temporary pointer listeners are registered
  grips,            \* the resize handle's temporary listeners: their start data
  capture,          \* the node that holds the pointer capture: "none", "header", "handle"
  viewport,         \* window.innerWidth, window.innerHeight
  scrollY,          \* window.scrollY
  frame,            \* the panel's applied geometry (its inline style and data-docked)
  touched,          \* history: the kinds of edit made to the selection since it was selected
  msgs,             \* runtime messages to the background worker, each with its handler's progress
  run,              \* the content script's EXECUTE_STRATEGY command in progress
  renderers,        \* the GridRenderer instances created so far and what each has in the page
  activeTabId,      \* the side panel's activeTabId
  sidePanel,        \* the side panel: the state it shows and the messages it received
  store,            \* chrome.storage.local: the stored strategy of each domain
  calls             \* the popup's execute clicks and updateMetadata calls in progress

domVars == <<content, attrs, styleAttr>>
fieldVars == <<active, hoverElement, selectedElement, highlightBox, hud, editorPanel,
               styleElement, snapshot, toastElement, toastTimeout>>
\* the state that belongs to the panel node and the gestures on it
geomPanel == <<panelPosition, dragging, grips, capture, frame>>
panelVars == <<toastText, toastVisible, boxDisplay, boxRect, panelTheme, rows, geomPanel, touched>>
\* the geometry no selection and no stop touches
geomKeep == <<dockState, panelSize, dragOffset, viewport, scrollY>>
\* the rest of the extension: background worker, strategy execution, side panel, storage
elsewhere == <<msgs, run, renderers, activeTabId, sidePanel, store, calls>>
envVars == <<listeners, pendingSaves, emitted, reply, rejected, prefersLight, edits, session, elsewhere>>
vars == <<domVars, fieldVars, panelVars, geomKeep, envVars>>

----------------------------------------------------------------------------
(* The DOM                                                                 *)

RECURSIVE TextOfItems(_, _)
TextOfItems(c, items) ==
  IF items = <<>> THEN ""
  ELSE (IF Head(items).kind = "text" THEN Head(items).v
        ELSE TextOfItems(c, c[Head(items).v])) \o TextOfItems(c, Tail(items))

\* node.textContent
TextContent(c, n) == TextOfItems(c, c[n])

\* node.textContent = s
SetTextContent(c, n, s) == [c EXCEPT ![n] = IF s = "" THEN <<>> ELSE <<Txt(s)>>]

HasParent(c, n) == \E p \in Nodes : \E i \in 1..Len(c[p]) : c[p][i] = El(n)
ParentNode(c, n) == IF HasParent(c, n)
                    THEN CHOOSE p \in Nodes : \E i \in 1..Len(c[p]) : c[p][i] = El(n)
                    ELSE Null

\* node.parentElement
ParentElement(c, n) == ParentNode(c, n)

RECURSIVE AncestorsOrSelf(_, _)
AncestorsOrSelf(c, n) ==
  IF n = Null THEN {} ELSE {n} \cup AncestorsOrSelf(c, ParentNode(c, n))

\* the node is in the document
Attached(c, n) == "html" \in AncestorsOrSelf(c, n)

\* node.remove()
RemoveNode(c, n) ==
  LET keep(x) == x # El(n)
  IN [p \in Nodes |-> SelectSeq(c[p], keep)]

\* parent.appendChild(n), n not in the tree
AppendChild(c, p, n) == [c EXCEPT ![p] = Append(@, El(n))]

\* element.children: every element child, HTML or not
ElementChildren(c, n) ==
  LET isE(x) == x.kind = "elem"
      s == SelectSeq(c[n], isE)
  IN [i \in 1..Len(s) |-> s[i].v]

\* Array.from(element.children).filter(node => node instanceof HTMLElement)
HTMLChildren(c, n) ==
  LET isH(x) == x.kind = "elem" /\ IsHTMLElement(x.v)
      s == SelectSeq(c[n], isH)
  IN [i \in 1..Len(s) |-> s[i].v]

AttrOf(a, n, name) == IF name \in DOMAIN a[n] THEN a[n][name] ELSE ""

\* element.setAttribute(name, value)
SetAttr(a, n, name, value) ==
  [a EXCEPT ![n] = [k \in (DOMAIN a[n]) \cup {name} |-> IF k = name THEN value ELSE a[n][k]]]

\* element.removeAttribute(name)
RemoveAttr(a, n, name) ==
  [a EXCEPT ![n] = [k \in (DOMAIN a[n]) \ {name} |-> a[n][k]]]

\* a check that knows the panel only
isPanelUI(c, a, n) ==
  \E m \in AncestorsOrSelf(c, n) : AttrOf(a, m, "id") = PanelId

\* ManualEditor.isManualUI
isManualUI(c, a, n) ==
  \E m \in AncestorsOrSelf(c, n) : AttrOf(a, m, "id") \in {PanelId, HudId}

\* window.getComputedStyle(element) on the modelled properties
ComputedStyle(n) ==
  [p \in SNAPSHOT_PROPERTIES |-> DeclValue(styleAttr[n].decls, p)]

NoSnapshot == [isNull |-> TRUE, text |-> "", style |-> StyleNone,
               attributes |-> EmptyAttrs,
               computed |-> [p \in SNAPSHOT_PROPERTIES |-> ""]]

\* the rectangle of a box that was not positioned yet
NoRect == [top |-> 0, left |-> 0, width |-> 0, height |-> 0]

\* The page's layout.  Its elements are inline blocks without padding: an
\* element is as wide as its text and as high as its font size, an element
\* without text is 0 by 0, and scrolling moves every element up.  The <svg>
\* has the default size of a replaced element, and the nodes of the editor
\* have the size their stylesheet gives them.
NodeTop(n) ==
  CASE n = "D" -> 100 [] n = "S" -> 120 [] n = "C" -> 140 [] n = "E" -> 160
    [] n = "F" -> 180 [] OTHER -> 0

\* element.getBoundingClientRect(); a node outside the document has an empty
\* rectangle
BoundingRect(c, sa, n, sy) ==
  LET text == TextContent(c, n)
      fontSize == IF DeclValue(sa[n].decls, "font-size") = "" THEN 16 ELSE 20
  IN IF ~Attached(c, n) THEN NoRect
     ELSE IF n \in ChromeNodes
     THEN [top |-> NodeTop(n), left |-> 0, width |-> 200, height |-> 40]
     ELSE IF ~IsHTMLElement(n)
     THEN [top |-> NodeTop(n) - sy, left |-> 0, width |-> 300, height |-> 150]
     ELSE [top |-> NodeTop(n) - sy, left |-> 0,
           width |-> 10 * Len(text),
           height |-> IF text = "" THEN 0 ELSE fontSize]

\* ManualEditor.updateHighlight: the top, left, width and height it gives
\* the box (window.scrollX is 0)
updateHighlight(element) ==
  LET rect == BoundingRect(content, styleAttr, element, scrollY)
  IN [top |-> rect.top + scrollY, left |-> rect.left,
      width |-> rect.width, height |-> rect.height]

\* ManualEditor.createSnapshot
createSnapshot(n) ==
  [isNull |-> FALSE, text |-> TextContent(content, n), style |-> styleAttr[n],
   attributes |-> attrs[n], computed |-> ComputedStyle(n)]

----------------------------------------------------------------------------
(* Bounds and the inputs the environment draws from                        *)

MaxEdits == 2      \* page mutations (input events, reorders) per run
MaxPending == 1    \* save requests in flight

TextVals == {"x"}
AttrControls == {"llm-attr-id", "llm-attr-title"}
AttrVals == {"", "v"}
StyleInputs == {<<"llm-text-color", "#0000ff">>, <<"llm-font-size", "">>,
                <<"llm-font-size", "20">>, <<"llm-font-size", "-">>}
Keys == {"Escape", "a"}

GlobalListeners == {"mousemove", "click", "keydown", "resize"}

DefaultToast == "Saved layout to extension storage"

----------------------------------------------------------------------------
(* Panel geometry                                                          *)

Max(a, b) == IF a >= b THEN a ELSE b
Min(a, b) == IF a <= b THEN a ELSE b

\* a CSS length in px, and the keyword auto
Px(n) == <<n>>
Auto == <<>>

PanelMinSize == 320     \* updatePanelFrame: Math.max(320, ...)
ResizeMinWidth == 280   \* resize handle: Math.max(280, ...)
ResizeMinHeight == 320  \* resize handle: Math.max(320, ...)
MarginLeft == 20
MarginTop == 60
MarginFar == 20
DockOffset == 32

\* the order of cycleDockState
DockOrder == <<"top-right", "top-left", "bottom-left", "bottom-right", "floating">>

\* a cycle that leaves out the last entry of the order
cycleDockStateShort(d) ==
  LET currentIndex == (CHOOSE i \in 1..Len(DockOrder) : DockOrder[i] = d) - 1
      nextIndex == (currentIndex + 1) % (Len(DockOrder) - 1)
  IN DockOrder[nextIndex + 1]

\* this.dockState.replace('-', ' '), as the dock toasts show it
DockLabel(d) ==
  CASE d = "top-right" -> "top right"
    [] d = "top-left" -> "top left"
    [] d = "bottom-left" -> "bottom left"
    [] d = "bottom-right" -> "bottom right"
    [] OTHER -> d

\* ManualEditor.cycleDockState
cycleDockState(d) ==
  LET currentIndex == (CHOOSE i \in 1..Len(DockOrder) : DockOrder[i] = d) - 1
      nextIndex == (currentIndex + 1) % Len(DockOrder)
  IN DockOrder[nextIndex + 1]

\* the geometry of a panel that does not exist
NoFrame == [width |-> Auto, height |-> Auto, left |-> Auto, top |-> Auto,
            right |-> Auto, bottom |-> Auto, docked |-> ""]

\* the height the panel's content takes when no height is set, and the
\* stylesheet's max-height: min(75vh, 660px)
ContentHeight(vp) == Min(400, Min((75 * vp.height) \div 100, 660))

\* panel.getBoundingClientRect() for a panel with applied geometry f in the
\* viewport vp; a panel outside the document has an empty rectangle
PanelRect(f, vp, attached) ==
  LET w == IF f.width = Auto THEN 0 ELSE f.width[1]
      h == IF f.height = Auto THEN ContentHeight(vp)
           ELSE Min(f.height[1], Min((75 * vp.height) \div 100, 660))
      l == CASE f.left # Auto -> f.left[1]
             [] f.left = Auto /\ f.right # Auto -> vp.width - f.right[1] - w
             [] OTHER -> 0
      t == CASE f.top # Auto -> f.top[1]
             [] f.top = Auto /\ f.bottom # Auto -> vp.height - f.bottom[1] - h
             [] OTHER -> 0
  IN IF attached THEN [left |-> l, top |-> t, width |-> w, height |-> h]
     ELSE [left |-> 0, top |-> 0, width |-> 0, height |-> 0]

\* a docking that sets the corner's two sides and leaves the others as they were
applyDockPositionKeep(f, d) ==
  CASE d = "top-right" -> [f EXCEPT !.top = Px(DockOffset), !.right = Px(DockOffset)]
    [] d = "top-left" -> [f EXCEPT !.top = Px(DockOffset), !.left = Px(DockOffset)]
    [] d = "bottom-right" -> [f EXCEPT !.bottom = Px(DockOffset), !.right = Px(DockOffset)]
    [] d = "bottom-left" -> [f EXCEPT !.bottom = Px(DockOffset), !.left = Px(DockOffset)]
    [] OTHER -> f

\* ManualEditor.applyDockPosition
applyDockPosition(f, d) ==
  LET cleared == [f EXCEPT !.left = Auto, !.right = Auto, !.top = Auto, !.bottom = Auto]
  IN CASE d = "top-right" -> [cleared EXCEPT !.top = Px(DockOffset), !.right = Px(DockOffset)]
       [] d = "top-left" -> [cleared EXCEPT !.top = Px(DockOffset), !.left = Px(DockOffset)]
       [] d = "bottom-right" -> [cleared EXCEPT !.bottom = Px(DockOffset), !.right = Px(DockOffset)]
       [] d = "bottom-left" -> [cleared EXCEPT !.bottom = Px(DockOffset), !.left = Px(DockOffset)]
       [] OTHER -> cleared

\* a clamp that forgets the far limit
clampNear(v, near, far) == Max(near, v)

\* ManualEditor.updatePanelFrame: Math.min(Math.max(near, v), far)
clamp(v, near, far) == Min(Max(near, v), far)

\* ManualEditor.updatePanelFrame on a panel with applied geometry f: the
\* new applied geometry and the new this.panelPosition
updatePanelFrame(f, d, pos, size, vp, attached) ==
  LET sized == [f EXCEPT !.width = Px(Max(PanelMinSize, size.width)),
                         !.height = IF size.height > 0
                                    THEN Px(Max(PanelMinSize, size.height)) ELSE Auto]
      rect == PanelRect(sized, vp, attached)
      maxLeft == Max(MarginLeft, vp.width - rect.width - MarginFar)
      maxTop == Max(MarginTop, vp.height - rect.height - MarginFar)
      left == clamp(pos.x, MarginLeft, maxLeft)
      top == clamp(pos.y, MarginTop, maxTop)
  IN IF d = "floating"
     THEN [frame |-> [sized EXCEPT !.left = Px(left), !.top = Px(top), !.right = Auto,
                                   !.bottom = Auto, !.docked = "floating"],
           position |-> [x |-> left, y |-> top]]
     ELSE [frame |-> [applyDockPosition(sized, d) EXCEPT !.docked = d],
           position |-> pos]

\* the viewports, pointer positions and buttons of the environment
InitViewport == [width |-> 1000, height |-> 800]
Viewports == {InitViewport, [width |-> 400, height |-> 500]}
PointerPoints == {[x |-> 10, y |-> 10], [x |-> 700, y |-> 500]}
Buttons == {0, 2}
MaxGrips == 2      \* pointer-downs on the resize handle before a pointer-up

\* the kinds of run: editing an element, walking the tree, saving,
\* looking around, moving the panel, resizing the panel
Sessions == {"edit", "navigate", "save", "look", "drag", "resize"}

\* the kinds of run in which the side panel repeats a command the editor
\* has already obeyed
CommandSessions == {"look", "save"}

\* the elements the user clicks in a run of each kind
ClickTargets(kind) ==
  IF kind = "navigate" THEN {"html", "body", "D", "S", "C", "hud", "hudExit", "panel"}
  ELSE IF kind \in {"drag", "resize"} THEN {"D"}
  ELSE {"D", "C", "hudExit"}

----------------------------------------------------------------------------
(* State after construction: the page as loaded, the editor as             *)
(* constructed by getManualEditor (content.ts 94-101).                     *)

InitContent ==
  [n \in Nodes |->
     CASE n = "html" -> <<El("head"), El("body")>>
       [] n = "body" -> <<El("D")>>
       [] n = "D" -> <<Txt("a"), El("S"), El("C"), El("E"), El("F")>>
       [] n = "C" -> <<Txt("b")>>
       [] OTHER -> <<>>]

InitAttrs ==
  [n \in Nodes |-> IF n = "D" THEN ("title" :> "t") ELSE EmptyAttrs]

InitStyle ==
  [n \in Nodes |-> IF n = "D" THEN StyleRaw(<<<<"color", "red">>>>) ELSE StyleNone]

InitEditor ==
  /\ content = InitContent
  /\ attrs = InitAttrs
  /\ styleAttr = InitStyle
  /\ active = FALSE
  /\ hoverElement = Null
  /\ selectedElement = Null
  /\ highlightBox = Null
  /\ hud = Null
  /\ editorPanel = Null
  /\ styleElement = Null
  /\ snapshot = NoSnapshot
  /\ toastElement = Null
  /\ toastTimeout = FALSE
  /\ toastText = ""
  /\ toastVisible = FALSE
  /\ boxDisplay = "unset"
  /\ boxRect = NoRect
  /\ panelTheme = "dark"
  /\ rows = 0
  /\ listeners = {}
  /\ pendingSaves = 0
  /\ emitted = <<>>
  /\ reply = "none"
  /\ rejected = FALSE
  /\ session \in Sessions
  /\ prefersLight \in (IF session = "look" THEN BOOLEAN ELSE {FALSE})
  /\ edits = 0
  /\ dockState = "floating"
  /\ viewport = InitViewport
  /\ scrollY = 0
  /\ panelPosition = [x |-> InitViewport.width - 460, y |-> 80]
  /\ panelSize = [width |-> 360, height |-> 0]
  /\ dragOffset = [x |-> 0, y |-> 0]
  /\ dragging = FALSE
  /\ grips = <<>>
  /\ capture = "none"
  /\ frame = NoFrame
  /\ touched = {}

\* document.head, document.body
DocumentHead(c) == IF \E i \in 1..Len(c["html"]) : c["html"][i] = El("head") THEN "head" ELSE Null
DocumentBody(c) == IF \E i \in 1..Len(c["html"]) : c["html"][i] = El("body") THEN "body" ELSE Null

\* A node of the editor that nothing refers to any more is returned to its
\* state before creation (the node ids are reused for the next node created).
Fresh(f, init, ns) == [n \in Nodes |-> IF n \in ns THEN init[n] ELSE f[n]]

----------------------------------------------------------------------------
(* Lifecycle                                                               *)

\* a toast written without looking for the toast element
showToastUnguarded(message) ==
  /\ toastText' = message
  /\ toastVisible' = TRUE
  /\ toastTimeout' = TRUE

\* ManualEditor.showToast: the variables of the toast
showToast(message) ==
  IF toastElement = Null
  THEN UNCHANGED <<toastText, toastVisible, toastTimeout>>
  ELSE /\ toastText' = message
       /\ toastVisible' = TRUE
       /\ toastTimeout' = TRUE

\* ManualEditor.start.  injectStyles and createHud append to document.head
\* and document.body; either is null once the text of <html> was replaced,
\* and the append then throws, after this.active was set.
start ==
  IF active
  THEN UNCHANGED <<domVars, fieldVars, panelVars, listeners>>
  ELSE LET head == DocumentHead(content)
           body == DocumentBody(content)
           styleThrows == styleElement = Null /\ head = Null
           c1 == IF styleElement = Null /\ head # Null
                 THEN AppendChild([content EXCEPT !["style"] = <<Txt("css")>>], head, "style")
                 ELSE content
           hudThrows == ~styleThrows /\ body = Null
           c2 == IF styleThrows \/ hudThrows THEN c1
                 ELSE AppendChild([c1 EXCEPT !["hud"] = <<Txt("H"), El("hudExit")>>,
                                            !["hudExit"] = <<Txt("E")>>], body, "hud")
       IN /\ active' = TRUE
          /\ content' = c2
          /\ styleElement' = IF styleThrows THEN styleElement ELSE "style"
          /\ hud' = IF styleThrows \/ hudThrows THEN hud ELSE "hud"
          /\ attrs' = IF styleThrows \/ hudThrows THEN attrs
                      ELSE [attrs EXCEPT !["hud"] = ("id" :> HudId)]
          /\ listeners' = IF styleThrows \/ hudThrows THEN listeners
                          ELSE listeners \cup GlobalListeners
          /\ UNCHANGED <<styleAttr, hoverElement, selectedElement, highlightBox, editorPanel,
                         snapshot, toastElement, toastTimeout, panelVars>>

\* whether start() returns (TRUE) or throws (FALSE)
startReturns ==
  active \/ (DocumentHead(content) # Null /\ DocumentBody(content) # Null) \/
  (styleElement # Null /\ DocumentBody(content) # Null)

\* a stop that leaves the window's resize listener registered
stopListenersLeak(l) == l \ {"mousemove", "click", "keydown"}

\* ManualEditor.stop: the four removeEventListener calls
stopListeners(l) == l \ GlobalListeners

\* a stop that keeps the snapshot
stopSnapshotKept == snapshot

\* ManualEditor.stop: this.snapshot = null
stopSnapshot == NoSnapshot

\* ManualEditor.stop, on an active editor
stop ==
  LET c1 == IF highlightBox = Null THEN content ELSE RemoveNode(content, highlightBox)
      c2 == IF hud = Null THEN c1 ELSE RemoveNode(c1, hud)
      c3 == IF editorPanel = Null THEN c2 ELSE RemoveNode(c2, editorPanel)
      c4 == IF styleElement = Null THEN c3 ELSE RemoveNode(c3, styleElement)
  IN /\ active' = FALSE
     /\ hoverElement' = Null
     /\ selectedElement' = Null
     /\ snapshot' = stopSnapshot
     /\ listeners' = stopListeners(listeners)
     /\ content' = Fresh(c4, InitContent, ChromeNodes)
     /\ attrs' = Fresh(attrs, InitAttrs, ChromeNodes)
     /\ styleAttr' = Fresh(styleAttr, InitStyle, ChromeNodes)
     /\ highlightBox' = Null
     /\ hud' = Null
     /\ editorPanel' = Null
     /\ styleElement' = Null
     /\ toastElement' = Null
     /\ toastTimeout' = FALSE
     /\ toastText' = ""
     /\ toastVisible' = FALSE
     /\ boxDisplay' = "unset"
     /\ boxRect' = NoRect
     /\ rows' = 0
     /\ panelTheme' = "dark"
     /\ dragging' = FALSE
     /\ grips' = <<>>
     /\ capture' = "none"
     /\ frame' = NoFrame
     /\ touched' = {}
     /\ UNCHANGED panelPosition

\* content.ts, case 'START_MANUAL_MODE'
CmdStart ==
  /\ ~active \/ session \in CommandSessions
  /\ start
  /\ reply' = IF startReturns THEN "ok" ELSE "none"
  /\ rejected' = ~startReturns
  /\ emitted' = <<>>
  /\ UNCHANGED <<pendingSaves, prefersLight, session, elsewhere, geomKeep, edits>>

\* a stop that reports success on an inactive editor
NotActiveOk == "ok"

\* ManualEditor.stop: Err(new Error('Manual mode is not active'))
NotActiveError == "Manual mode is not active"

\* content.ts, case 'STOP_MANUAL_MODE'
CmdStop ==
  /\ active \/ session \in CommandSessions
  /\ IF active THEN stop /\ reply' = "ok"
     ELSE /\ reply' = NotActiveError
          /\ UNCHANGED <<domVars, fieldVars, panelVars, listeners>>
  /\ rejected' = FALSE
  /\ emitted' = <<>>
  /\ UNCHANGED <<pendingSaves, prefersLight, session, elsewhere, geomKeep, edits>>

\* the editor commands of the Command type that content.ts has no case for
ManualCommands ==
  {"MANUAL_GET_STATE", "MANUAL_SET_TEXT", "MANUAL_SET_ATTRIBUTE", "MANUAL_SET_STYLE",
   "MANUAL_SELECT_PARENT", "MANUAL_SELECT_CHILD", "MANUAL_RESET", "MANUAL_SAVE_LAYOUT"}

\* content.ts, the default case: the command reaches no editor operation
CmdDefault(type) ==
  /\ session \in CommandSessions
  /\ type \in ManualCommands
  /\ reply' = "Unknown command"
  /\ rejected' = FALSE
  /\ emitted' = <<>>
  /\ UNCHANGED <<domVars, fieldVars, panelVars, geomKeep, listeners, pendingSaves,
                 prefersLight, session, elsewhere, edits>>

----------------------------------------------------------------------------
(* Highlight and selection                                                 *)

\* ManualEditor.updateHighlight -> ensureHighlightBox: TRUE when
\* document.body.appendChild(box) throws
highlightThrows == highlightBox = Null /\ DocumentBody(content) = Null

\* an ensureHighlightBox that builds a box at every call
ensureHighlightBoxAgain(c) ==
  IF DocumentBody(c) # Null THEN AppendChild(c, DocumentBody(c), "box") ELSE c

\* the document after ensureHighlightBox
ensureHighlightBox(c) ==
  IF highlightBox = Null /\ DocumentBody(c) # Null
  THEN AppendChild(c, DocumentBody(c), "box")
  ELSE c

\* the name under which element e is the selection: showEditorPanel removes
\* the panel that is selected and builds the next one
Selected(e) == IF e = "panel" THEN "panelOld" ELSE e

\* ManualEditor.selectElement(e): selection, snapshot, highlight, and the
\* panel built anew by showEditorPanel.  The panel that is replaced keeps
\* the name panelOld while it is the selection.
selectElement(e) ==
  LET sel == Selected(e)
      body == DocumentBody(content)
      c1 == ensureHighlightBox(content)
      \* this.editorPanel?.remove()
      c2 == IF editorPanel = Null THEN c1 ELSE RemoveNode(c1, editorPanel)
      \* the replaced panel, if it is what was selected
      c3 == IF e = "panel" THEN [c2 EXCEPT !["panelOld"] = content["panel"]]
            ELSE [c2 EXCEPT !["panelOld"] = <<>>]
      a3 == IF e = "panel" THEN [attrs EXCEPT !["panelOld"] = attrs["panel"]]
            ELSE [attrs EXCEPT !["panelOld"] = EmptyAttrs]
      s3 == IF e = "panel" THEN [styleAttr EXCEPT !["panelOld"] = styleAttr["panel"]]
            ELSE [styleAttr EXCEPT !["panelOld"] = StyleNone]
      \* document.body.appendChild(panel)
      c4 == AppendChild([c3 EXCEPT !["panel"] = <<Txt("P")>>], body, "panel")
      \* attachPanelInteractivity: updatePanelFrame(panel)
      framed == updatePanelFrame(NoFrame, dockState, panelPosition, panelSize, viewport, TRUE)
  IN /\ selectedElement' = sel
     /\ snapshot' = createSnapshot(e)
     /\ touched' = {}
     /\ IF highlightThrows
        THEN UNCHANGED <<content, attrs, styleAttr, highlightBox, boxDisplay, boxRect, geomPanel, editorPanel,
                         toastElement, toastText, toastVisible, panelTheme, rows>>
        ELSE /\ highlightBox' = "box"
             /\ boxDisplay' = "block"
             /\ boxRect' = updateHighlight(e)
             /\ attrs' = IF body = Null THEN a3 ELSE [a3 EXCEPT !["panel"] = ("id" :> PanelId)]
             /\ styleAttr' = IF body = Null THEN s3
                             ELSE [s3 EXCEPT !["box"] = StyleCssom(<<<<"position", "fixed">>>>),
                                             !["panel"] = StyleCssom(<<<<"opacity", "0.95">>>>)]
             /\ IF body = Null
                THEN /\ content' = c3
                     /\ UNCHANGED <<editorPanel, toastElement, toastText, toastVisible,
                                    panelTheme, rows, geomPanel>>
                ELSE /\ content' = c4
                     /\ editorPanel' = "panel"
                     /\ toastElement' = "toast"
                     /\ toastText' = DefaultToast
                     /\ toastVisible' = FALSE
                     /\ panelTheme' = IF prefersLight THEN "light" ELSE "dark"
                     /\ rows' = Len(HTMLChildren(c4, sel))
                     /\ dragging' = FALSE
                     /\ grips' = <<>>
                     /\ capture' = "none"
                     /\ frame' = framed.frame
                     /\ panelPosition' = framed.position

\* the variables selectElement leaves alone
selectFrame == <<active, hoverElement, hud, styleElement, toastTimeout, listeners>>

\* ManualEditor.handleMouseMove, the listener of document 'mousemove'
handleMouseMove(target) ==
  IF ~active
  THEN UNCHANGED <<domVars, fieldVars, panelVars>>
  ELSE IF isManualUI(content, attrs, target)
  THEN /\ hoverElement' = Null
       /\ boxDisplay' = IF highlightBox = Null THEN boxDisplay ELSE "none"
       /\ UNCHANGED boxRect
       /\ UNCHANGED <<domVars, active, selectedElement, highlightBox, hud, editorPanel,
                      styleElement, snapshot, toastElement, toastTimeout, toastText,
                      toastVisible, panelTheme, rows, geomPanel, touched>>
  ELSE /\ hoverElement' = target
       /\ IF highlightThrows
          THEN UNCHANGED <<content, styleAttr, highlightBox, boxDisplay, boxRect, geomPanel, touched>>
          ELSE /\ content' = ensureHighlightBox(content)
               /\ styleAttr' = [styleAttr EXCEPT !["box"] = StyleCssom(<<<<"position", "fixed">>>>)]
               /\ highlightBox' = "box"
               /\ boxDisplay' = "block"
               /\ boxRect' = updateHighlight(target)
       /\ UNCHANGED <<attrs, active, selectedElement, hud, editorPanel, styleElement,
                      snapshot, toastElement, toastTimeout, toastText, toastVisible,
                      panelTheme, rows, geomPanel, touched>>

\* a step that is no command: no message sent, no answer given
Quiet == emitted' = <<>> /\ reply' = "none" /\ rejected' = FALSE

\* the elements a pointer event can have as its target
PointerTargets == {"html", "body", "D", "S", "C", "hud", "hudExit", "panel"}

\* the inputs of the panel: control id and value
PanelInputs ==
  ({"llm-text"} \X TextVals) \cup (AttrControls \X AttrVals) \cup StyleInputs

\* the controls the user types into in a run of each kind (id and value)
PanelInputsOf(kind) ==
  CASE kind = "edit" -> PanelInputs
    [] kind = "navigate" -> {<<"llm-text", "x">>, <<"llm-attr-id", "v">>}
    [] kind = "save" -> {<<"llm-text", "x">>}
    [] OTHER -> {}

\* the elements the pointer is moved over
HoverTargets == {"D", "C", "hud", "panel"}

\* a 'mousemove' event over a node of the document
MouseMove(target) ==
  /\ session = "look"
  /\ target \in HoverTargets
  /\ Attached(content, target)
  /\ IF "mousemove" \in listeners
     THEN handleMouseMove(target)
     ELSE UNCHANGED <<domVars, fieldVars, panelVars>>
  /\ Quiet
  /\ UNCHANGED <<listeners, pendingSaves, prefersLight, session, elsewhere, geomKeep, edits>>

\* ManualEditor.handleClick, the capturing listener of document 'click';
\* a click it lets through reaches the HUD's Exit button (createHud)
Click(target) ==
  /\ target \in ClickTargets(session)
  /\ Attached(content, target)
  /\ Quiet
  /\ UNCHANGED <<pendingSaves, prefersLight, session, elsewhere, geomKeep, edits>>
  /\ IF "click" \in listeners /\ active /\ ~isManualUI(content, attrs, target)
     THEN selectElement(target) /\ UNCHANGED selectFrame
     ELSE IF target = "hudExit" /\ active
     THEN stop
     ELSE UNCHANGED <<domVars, fieldVars, panelVars, listeners>>

\* ManualEditor.handleKeyDown, the listener of document 'keydown'
KeyDown(key) ==
  /\ Quiet
  /\ UNCHANGED <<pendingSaves, prefersLight, session, elsewhere, geomKeep, edits>>
  /\ IF "keydown" \in listeners /\ active /\ key = "Escape"
     THEN stop
     ELSE UNCHANGED <<domVars, fieldVars, panelVars, listeners>>

----------------------------------------------------------------------------
(* The panel's controls                                                    *)

\* the panel is in the document, so its controls receive events
PanelLive == editorPanel # Null /\ Attached(content, editorPanel)

\* ManualEditor.updateAttribute, on the attribute maps
updateAttribute(a, name, value) ==
  IF selectedElement = Null THEN a
  ELSE IF value = "" THEN RemoveAttr(a, selectedElement, name)
  ELSE SetAttr(a, selectedElement, name, value)

\* ManualEditor.setStyleProperty, on the style attributes
setStyleProperty(st, property, value) ==
  IF selectedElement = Null THEN st
  ELSE IF value = ""
  THEN [st EXCEPT ![selectedElement] = StyleRemoveProperty(@, property)]
  ELSE [st EXCEPT ![selectedElement] = StyleSetProperty(@, property, value)]

\* the switch of the panel's 'input' listener: the property a style control
\* writes and the value it passes to setStyleProperty
StyleProperty(control) ==
  CASE control = "llm-text-color" -> "color"
    [] control = "llm-font-size" -> "font-size"

StyleArgument(control, value) ==
  CASE control = "llm-text-color" -> value
    [] control = "llm-font-size" -> IF value # "" THEN value \o "px" ELSE ""

\* the panel's 'input' listener (attachControlHandlers) for the control
\* with the given id and value
inputHandler(control, value) ==
  IF selectedElement = Null
  THEN UNCHANGED domVars
  ELSE CASE control = "llm-text" ->
              /\ content' = SetTextContent(content, selectedElement, value)
              /\ UNCHANGED <<attrs, styleAttr>>
         [] control = "llm-attr-id" ->
              /\ attrs' = SetAttr(attrs, selectedElement, "id", value)
              /\ UNCHANGED <<content, styleAttr>>
         [] control = "llm-attr-title" ->
              /\ attrs' = updateAttribute(attrs, "title", value)
              /\ UNCHANGED <<content, styleAttr>>
         [] control \in {"llm-text-color", "llm-font-size"} ->
              /\ styleAttr' = setStyleProperty(styleAttr, StyleProperty(control),
                                               StyleArgument(control, value))
              /\ UNCHANGED <<content, attrs>>

\* the texts the user can leave in a field that are valid floating-point
\* numbers
ValidNumbers == {"20"}

\* the value of an <input type="number"> (createNumberInput) holding the
\* given text: the text when it is a valid number, otherwise the empty
\* string
numberInputValue(typed) == IF typed \in ValidNumbers THEN typed ELSE ""

\* target.value of a control of the panel after the user left the given
\* text in it
controlValue(control, typed) ==
  IF control = "llm-font-size" THEN numberInputValue(typed) ELSE typed

\* the kind of edit a control makes: text, attribute or style
ControlKind(control) ==
  CASE control = "llm-text" -> "text"
    [] control \in {"llm-attr-id", "llm-attr-title"} -> "attribute"
    [] OTHER -> "style"

\* an 'input' event on a control of the panel, whose field holds the
\* given text
PanelInput(control, typed) ==
  /\ <<control, typed>> \in PanelInputsOf(session)
  /\ PanelLive
  /\ edits < MaxEdits
  /\ edits' = edits + 1
  /\ inputHandler(control, controlValue(control, typed))
  /\ touched' = touched \cup {ControlKind(control)}
  /\ Quiet
  /\ UNCHANGED <<fieldVars, toastText, toastVisible, boxDisplay, boxRect, panelTheme, rows, geomPanel,
                 listeners, pendingSaves, prefersLight, session, elsewhere, geomKeep>>

\* ManualEditor.resetChanges: the document after it
resetContent ==
  IF selectedElement = Null \/ snapshot.isNull THEN content
  ELSE SetTextContent(content, selectedElement, snapshot.text)

\* a reset that writes an empty style attribute where there was none
resetStyleEmpty(snap) == IF ~snap.style.present THEN StyleCssom(<<>>) ELSE snap.style

\* removeAttribute('style') when snapshot.style is null, else setAttribute
resetStyleValue(snap) == IF ~snap.style.present THEN StyleNone ELSE snap.style

resetStyle ==
  IF selectedElement = Null \/ snapshot.isNull THEN styleAttr
  ELSE [styleAttr EXCEPT ![selectedElement] = resetStyleValue(snapshot)]

\* a reset that restores the snapshot's attributes and removes none
resetAttrsKeepAdded ==
  IF selectedElement = Null \/ snapshot.isNull THEN attrs
  ELSE [attrs EXCEPT ![selectedElement] =
          [k \in (DOMAIN @) \cup (DOMAIN snapshot.attributes) |->
             IF k \in DOMAIN snapshot.attributes THEN snapshot.attributes[k] ELSE @[k]]]

\* ManualEditor.resetChanges: the attributes after its two loops
resetAttrs ==
  IF selectedElement = Null \/ snapshot.isNull THEN attrs
  ELSE [attrs EXCEPT ![selectedElement] = snapshot.attributes]

\* ManualEditor.populateChildren: the rows listed for the document c
populateChildren(c) ==
  IF selectedElement = Null THEN rows ELSE Len(HTMLChildren(c, selectedElement))

\* the panel's 'click' listener, case 'reset'
ClickReset ==
  /\ session # "navigate"
  /\ PanelLive
  /\ content' = resetContent
  /\ styleAttr' = resetStyle
  /\ attrs' = resetAttrs
  /\ rows' = IF snapshot.isNull THEN rows ELSE populateChildren(resetContent)
  /\ showToast("Restored original styles")
  /\ Quiet
  /\ UNCHANGED <<active, hoverElement, selectedElement, highlightBox, hud, editorPanel,
                 styleElement, snapshot, toastElement, boxDisplay, boxRect, geomPanel, touched, panelTheme,
                 listeners, pendingSaves, prefersLight, session, elsewhere, geomKeep, edits>>

\* the same listener, case 'reset', on a panel that stop() has removed from
\* the document: the node keeps its listener, and a click event can still be
\* dispatched on its button by whoever holds the node.  A panel has existed
\* once one of its controls was used.
StaleClickReset ==
  /\ ~active
  /\ editorPanel = Null
  /\ edits > 0
  /\ content' = resetContent
  /\ styleAttr' = resetStyle
  /\ attrs' = resetAttrs
  /\ showToast("Restored original styles")
  /\ touched' = touched \cup {"stale reset"}
  /\ Quiet
  /\ UNCHANGED <<active, hoverElement, selectedElement, highlightBox, hud, editorPanel,
                 styleElement, snapshot, toastElement, boxDisplay, boxRect, geomPanel, panelTheme, rows,
                 listeners, pendingSaves, prefersLight, session, elsewhere, geomKeep, edits>>

\* a save that is never refused
saveRefusedNever == FALSE

\* saveManualLayout: if (!this.selectedElement)
saveRefused == selectedElement = Null

\* saveManualLayout up to its await
saveRequest ==
  /\ IF saveRefused
     THEN /\ showToast("No element selected")
          /\ UNCHANGED pendingSaves
          /\ Quiet
     ELSE /\ pendingSaves' = pendingSaves + 1
          /\ emitted' = <<"SAVE_MANUAL_LAYOUT">>
          /\ reply' = "none"
          /\ rejected' = FALSE
          /\ UNCHANGED <<toastText, toastVisible, toastTimeout>>
  /\ UNCHANGED <<domVars, active, hoverElement, selectedElement, highlightBox, hud,
                 editorPanel, styleElement, snapshot, toastElement, boxDisplay, boxRect, geomPanel,
                 panelTheme, rows, listeners, prefersLight, session, elsewhere, geomKeep, edits>>

\* the panel's 'click' listener, case 'save'
ClickSave ==
  /\ session = "save"
  /\ PanelLive
  /\ pendingSaves < MaxPending
  /\ saveRequest
  /\ touched' = IF saveRefused THEN touched ELSE touched \cup {"save"}

\* the same listener, case 'save', on a panel that stop() has removed from
\* the document
StaleClickSave ==
  /\ ~active
  /\ editorPanel = Null
  /\ edits > 0
  /\ pendingSaves < MaxPending
  /\ saveRequest
  /\ touched' = touched \cup {"stale save"}

\* a save that never stores a snapshot
saveSnapshotNever(success) == snapshot

\* a save that refreshes the snapshot whatever the response
saveSnapshotAlways(success) ==
  IF selectedElement # Null THEN createSnapshot(selectedElement) ELSE snapshot

\* saveManualLayout after its await: the snapshot it stores
saveSnapshot(success) ==
  IF success /\ selectedElement # Null THEN createSnapshot(selectedElement) ELSE snapshot

\* saveManualLayout after its await: the response to SAVE_MANUAL_LAYOUT.
\* createSnapshot(null) throws when the editor was stopped meanwhile.
SaveResponse(success) ==
  /\ pendingSaves > 0
  /\ pendingSaves' = pendingSaves - 1
  /\ snapshot' = saveSnapshot(success)
  /\ IF success
     THEN IF selectedElement = Null
          THEN UNCHANGED <<toastText, toastVisible, toastTimeout>>
          ELSE showToast("Saved manual layout")
     ELSE showToast("Save failed")
  /\ emitted' = <<>>
  /\ reply' = "none"
  /\ rejected' = (success /\ selectedElement = Null)
  /\ UNCHANGED <<domVars, active, hoverElement, selectedElement, highlightBox, hud,
                 editorPanel, styleElement, toastElement, boxDisplay, boxRect, geomPanel, touched, panelTheme, rows,
                 listeners, prefersLight, session, elsewhere, geomKeep, edits>>

\* a test that accepts every parent element
parentEditableAny(parent) == parent # Null

\* ManualEditor.jumpToParent: the test !(!parent || this.isManualUI(parent))
parentEditable(parent) == parent # Null /\ ~isManualUI(content, attrs, parent)

\* ManualEditor.jumpToParent, from the panel's 'click' listener
jumpToParent ==
  LET parent == ParentElement(content, selectedElement)
  IN IF selectedElement = Null
     THEN UNCHANGED <<domVars, fieldVars, panelVars>>
     ELSE IF ~parentEditable(parent)
     THEN /\ showToast("No editable parent")
          /\ UNCHANGED <<domVars, active, hoverElement, selectedElement, highlightBox, hud,
                         editorPanel, styleElement, snapshot, toastElement, boxDisplay, boxRect, geomPanel, touched,
                         panelTheme, rows>>
     ELSE selectElement(parent) /\ UNCHANGED <<active, hoverElement, hud, styleElement,
                                               toastTimeout>>

ClickJumpParent ==
  /\ session = "navigate"
  /\ PanelLive
  /\ jumpToParent
  /\ Quiet
  /\ UNCHANGED <<listeners, pendingSaves, prefersLight, session, elsewhere, geomKeep, edits>>

\* the panel's 'click' listener, case 'toggle-theme'
ClickToggleTheme ==
  /\ session = "look"
  /\ PanelLive
  /\ panelTheme' = IF panelTheme = "light" THEN "dark" ELSE "light"
  /\ showToast("Theme: " \o panelTheme')
  /\ Quiet
  /\ UNCHANGED <<domVars, active, hoverElement, selectedElement, highlightBox, hud,
                 editorPanel, styleElement, snapshot, toastElement, boxDisplay, boxRect, geomPanel, touched, rows,
                 listeners, pendingSaves, prefersLight, session, elsewhere, geomKeep, edits>>

\* the panel's 'click' listener, case 'refresh-children'
ClickRefreshChildren ==
  /\ session = "edit"
  /\ PanelLive
  /\ rows' = populateChildren(content)
  /\ showToast("Refreshed child list")
  /\ Quiet
  /\ UNCHANGED <<domVars, active, hoverElement, selectedElement, highlightBox, hud,
                 editorPanel, styleElement, snapshot, toastElement, boxDisplay, boxRect, geomPanel, touched, panelTheme,
                 listeners, pendingSaves, prefersLight, session, elsewhere, geomKeep, edits>>

\* the panel's 'click' listener, case 'select-child', for the Edit button
\* of the row with data-index = index
ClickSelectChild(index) ==
  LET children == HTMLChildren(content, selectedElement)
  IN /\ session = "navigate"
     /\ PanelLive
     /\ index \in 0..(rows - 1)
     /\ Quiet
     /\ UNCHANGED <<listeners, pendingSaves, prefersLight, session, elsewhere, geomKeep, edits>>
     /\ IF selectedElement # Null /\ index + 1 \in DOMAIN children
        THEN selectElement(children[index + 1]) /\ UNCHANGED <<active, hoverElement, hud,
                                                               styleElement, toastTimeout>>
        ELSE UNCHANGED <<domVars, fieldVars, panelVars>>

\* the position of element n among the items of a node
IndexOfItem(items, n) == CHOOSE i \in 1..Len(items) : items[i] = El(n)

\* the items with element n inserted before position i (1 .. Len + 1)
InsertAt(items, i, n) ==
  SubSeq(items, 1, i - 1) \o <<El(n)>> \o SubSeq(items, i, Len(items))

\* an index that reads the list from its end when negative, as
\* Array.prototype.at does
childAtWrap(children, index) ==
  LET i == IF index < 0 THEN Len(children) + index + 1 ELSE index + 1
  IN IF i \in DOMAIN children THEN children[i] ELSE Null

\* children[index] of a JavaScript array: Null stands for undefined
childAt(children, index) ==
  IF index + 1 \in DOMAIN children THEN children[index + 1] ELSE Null

\* a reorder that always inserts before the target
reorderPlaceBefore(sourceIndex, targetIndex, at) == at

\* ManualEditor.reorderChild: where the source goes among the other items,
\* the target being item `at` of them: target.after(source) or
\* insertBefore(source, target)
reorderPlace(sourceIndex, targetIndex, at) ==
  IF sourceIndex < targetIndex THEN at + 1 ELSE at

\* ManualEditor.reorderChild: the children of the selection after
\* target.after(source) or insertBefore(source, target); a node inserted
\* next to itself stays where it is
reorderChild(c, sourceIndex, targetIndex) ==
  LET children == HTMLChildren(c, selectedElement)
      source == childAt(children, sourceIndex)
      target == childAt(children, targetIndex)
      isSource(x) == x # El(source)
      without == SelectSeq(c[selectedElement], isSource)
      at == IndexOfItem(without, target)
  IN IF selectedElement = Null \/ sourceIndex = targetIndex THEN c
     ELSE IF source = Null \/ target = Null THEN c
     ELSE IF source = target THEN c
     ELSE [c EXCEPT ![selectedElement] =
             InsertAt(without, reorderPlace(sourceIndex, targetIndex, at), source)]

\* whether reorderChild reaches its populateChildren and toast
reorderApplies(sourceIndex, targetIndex) ==
  /\ selectedElement # Null
  /\ sourceIndex # targetIndex
  /\ childAt(HTMLChildren(content, selectedElement), sourceIndex) # Null
  /\ childAt(HTMLChildren(content, selectedElement), targetIndex) # Null

\* what Number(dataTransfer.getData('text/plain')) can be when it is a
\* number: the index of a dragged row, or the number in text dragged from
\* elsewhere
DropSources(n) == -1..(n - 1)

\* the 'drop' listener of a child row (attachChildDnD): the row dragged has
\* data-index sourceIndex, the row dropped on has data-index targetIndex
DropRow(sourceIndex, targetIndex) ==
  /\ session = "edit"
  /\ PanelLive
  /\ sourceIndex \in DropSources(rows)
  /\ targetIndex \in 0..(rows - 1)
  /\ edits < MaxEdits
  /\ edits' = edits + 1
  /\ content' = reorderChild(content, sourceIndex, targetIndex)
  /\ IF reorderApplies(sourceIndex, targetIndex)
     THEN /\ rows' = populateChildren(content')
          /\ showToast("Reordered elements")
          /\ touched' = touched \cup {"order"}
     ELSE /\ touched' = touched \cup {"drop"}
          /\ UNCHANGED <<rows, toastText, toastVisible, toastTimeout>>
  /\ Quiet
  /\ UNCHANGED <<attrs, styleAttr, active, hoverElement, selectedElement, highlightBox, hud,
                 editorPanel, styleElement, snapshot, toastElement, boxDisplay, boxRect, geomPanel, panelTheme,
                 listeners, pendingSaves, prefersLight, session, elsewhere, geomKeep>>

\* the callback of the timer showToast arms
ToastTimer ==
  /\ session = "look"
  /\ toastTimeout
  /\ toastTimeout' = FALSE
  /\ toastVisible' = FALSE
  /\ Quiet
  /\ UNCHANGED <<domVars, active, hoverElement, selectedElement, highlightBox, hud,
                 editorPanel, styleElement, snapshot, toastElement, toastText, boxDisplay, boxRect, geomPanel, touched,
                 panelTheme, rows, listeners, pendingSaves, prefersLight, session, elsewhere, geomKeep, edits>>

----------------------------------------------------------------------------
(* Panel gestures: dock cycling, header drag, resize handle, window resize *)

\* the frame and position after updatePanelFrame(this.editorPanel) with
\* dock state d, stored position pos and stored size
reframe(d, pos, size, vp) ==
  updatePanelFrame(frame, d, pos, size, vp, Attached(content, editorPanel))

\* cycleDockState, updatePanelFrame and the toast, as the panel's dock
\* button and the header's 'dblclick' listener do
dockCycle ==
  /\ dockState' = cycleDockState(dockState)
  /\ IF editorPanel = Null
     THEN UNCHANGED <<frame, panelPosition, toastText, toastVisible, toastTimeout>>
     ELSE /\ frame' = reframe(dockState', panelPosition, panelSize, viewport).frame
          /\ panelPosition' = reframe(dockState', panelPosition, panelSize, viewport).position
          /\ showToast("Docked to " \o DockLabel(dockState'))
  /\ Quiet
  /\ UNCHANGED <<domVars, active, hoverElement, selectedElement, highlightBox, hud,
                 editorPanel, styleElement, snapshot, toastElement, boxDisplay, boxRect, panelTheme,
                 rows, touched, dragging, grips, capture, panelSize, dragOffset, viewport, scrollY,
                 listeners, pendingSaves, prefersLight, edits, session, elsewhere>>

\* the panel's 'click' listener, case 'dock'
ClickDock ==
  /\ session = "resize"
  /\ PanelLive
  /\ dockCycle

\* the header's 'dblclick' listener
HeaderDblClick ==
  /\ session = "drag"
  /\ PanelLive
  /\ dockCycle

\* what a gesture on the panel leaves alone
gestureFrame == <<domVars, fieldVars, toastText, toastVisible, boxDisplay, boxRect, panelTheme, rows,
                  touched, listeners, pendingSaves, prefersLight, session, elsewhere>>

\* a pointer-down that begins a gesture whatever the button
beginsGestureAny(button) == TRUE

\* the 'pointerdown' listeners: event.button !== 0 returns
beginsGesture(button) == button = 0

\* the header's 'pointerdown' listener
HeaderPointerDown(button, pt) ==
  LET rect == PanelRect(frame, viewport, TRUE)
  IN /\ session = "drag"
     /\ PanelLive
     /\ edits < MaxEdits
     /\ edits' = edits + 1
     /\ IF ~beginsGesture(button)
        THEN UNCHANGED <<dragOffset, dragging, capture>>
        ELSE /\ dragOffset' = [x |-> pt.x - rect.left, y |-> pt.y - rect.top]
             /\ capture' = "header"
             /\ dragging' = TRUE
     /\ Quiet
     /\ UNCHANGED <<gestureFrame, dockState, panelPosition, panelSize, grips, viewport, scrollY,
                    frame>>

\* onPointerMove, the header's temporary 'pointermove' listener
HeaderPointerMove(pt) ==
  LET moved == [x |-> pt.x - dragOffset.x, y |-> pt.y - dragOffset.y]
      framed == updatePanelFrame(frame, "floating", moved, panelSize, viewport, TRUE)
  IN /\ session = "drag"
     /\ PanelLive
     /\ edits < MaxEdits
     /\ edits' = edits + 1
     /\ IF dragging
        THEN /\ dockState' = "floating"
             /\ frame' = framed.frame
             /\ panelPosition' = framed.position
        ELSE UNCHANGED <<dockState, frame, panelPosition>>
     /\ Quiet
     /\ UNCHANGED <<gestureFrame, panelSize, dragOffset, dragging, grips, capture, viewport, scrollY>>

\* onPointerUp, the header's temporary 'pointerup' and 'pointercancel' listener
HeaderPointerUp ==
  /\ session = "drag"
  /\ PanelLive
  /\ dragging' = FALSE
  /\ capture' = "none"
  /\ Quiet
  /\ UNCHANGED <<gestureFrame, dockState, panelPosition, panelSize, dragOffset, grips,
                 viewport, scrollY, frame, edits>>

\* the resize handle's 'pointerdown' listener: a new pair of temporary
\* listeners that remember where the gesture started
HandlePointerDown(button, pt) ==
  LET rect == PanelRect(frame, viewport, TRUE)
  IN /\ session = "resize"
     /\ PanelLive
     /\ Len(grips) < MaxGrips
     /\ edits < MaxEdits
     /\ edits' = edits + 1
     /\ IF ~beginsGesture(button)
        THEN UNCHANGED <<grips, capture, touched>>
        ELSE /\ grips' = Append(grips, [startWidth |-> rect.width, startHeight |-> rect.height,
                                        startX |-> pt.x, startY |-> pt.y])
             /\ capture' = "handle"
             /\ touched' = IF grips = <<>> THEN touched ELSE touched \cup {"second grip"}
     /\ Quiet
     /\ UNCHANGED <<domVars, fieldVars, toastText, toastVisible, boxDisplay, boxRect,
                    panelTheme, rows, listeners, pendingSaves, prefersLight, session, elsewhere,
                    dockState, panelPosition, panelSize, dragOffset, dragging,
                    viewport, scrollY, frame>>

\* handleMove of one pointer-down: the size it stores and applies
handleMove(grip, pt) ==
  [width |-> Max(ResizeMinWidth, grip.startWidth + (pt.x - grip.startX)),
   height |-> Max(ResizeMinHeight, grip.startHeight + (pt.y - grip.startY))]

\* a 'pointermove' on the resize handle: every registered handleMove runs,
\* in the order of registration
HandlePointerMove(pt) ==
  LET last == handleMove(grips[Len(grips)], pt)
  IN /\ session = "resize"
     /\ PanelLive
     /\ edits < MaxEdits
     /\ edits' = edits + 1
     /\ IF grips # <<>>
        THEN /\ panelSize' = last
             /\ frame' = [frame EXCEPT !.width = Px(last.width), !.height = Px(last.height)]
        ELSE UNCHANGED <<panelSize, frame>>
     /\ Quiet
     /\ UNCHANGED <<gestureFrame, dockState, panelPosition, dragOffset, dragging, grips, capture,
                    viewport, scrollY>>

\* a 'pointerup' that runs the handleUp of the last pointer-down only
handleUpLast(g) == IF g = <<>> THEN g ELSE SubSeq(g, 1, Len(g) - 1)

\* the handleUp listeners of all pointer-downs run on one event, and each
\* removes its own three listeners
handleUp(g) == <<>>

\* a 'pointerup' or 'pointercancel' on the resize handle: every handleUp runs
HandlePointerUp ==
  /\ session = "resize"
  /\ PanelLive
  /\ grips' = handleUp(grips)
  /\ capture' = "none"
  /\ Quiet
  /\ UNCHANGED <<gestureFrame, dockState, panelPosition, panelSize, dragOffset, dragging,
                 viewport, scrollY, frame, edits>>

\* ManualEditor.handleWindowResize, the listener of window 'resize'
WindowResize(vp) ==
  /\ session = "resize"
  /\ vp # viewport
  /\ viewport' = vp
  /\ UNCHANGED scrollY
  /\ IF "resize" \in listeners /\ editorPanel # Null
     THEN /\ frame' = reframe(dockState, panelPosition, panelSize, vp).frame
          /\ panelPosition' = reframe(dockState, panelPosition, panelSize, vp).position
     ELSE UNCHANGED <<frame, panelPosition>>
  /\ Quiet
  /\ UNCHANGED <<gestureFrame, dockState, panelSize, dragOffset, dragging, grips, capture, edits>>

\* the offsets the page is scrolled to
ScrollOffsets == {0, 40}

\* the user scrolls the page; the editor has no listener of 'scroll'
Scroll(y) ==
  /\ session = "look"
  /\ y \in ScrollOffsets
  /\ y # scrollY
  /\ scrollY' = y
  /\ Quiet
  /\ UNCHANGED <<domVars, fieldVars, panelVars, dockState, panelSize, dragOffset, viewport,
                 listeners, pendingSaves, prefersLight, session, elsewhere, edits>>

\* the row indices the environment uses
RowIndices == 0..3

\* the source indices the environment drops
DropIndices == -1..3

----------------------------------------------------------------------------
(* The rest of the extension, at rest                                      *)

\* the runtime messages followed
MaxMessages == 2
MsgIds == 1..MaxMessages

\* a message nobody has sent yet
NoMessage == [type |-> "none", tabUrl |-> FALSE, pc |-> "unsent", value |-> "none",
              callbacks |-> 0, resolved |-> "pending"]

\* no EXECUTE_STRATEGY command in progress
NoRun == [pc |-> "idle", tabs |-> <<>>, i |-> 0, views |-> <<>>, result |-> "none"]

\* the side panel before init()
NoPanel == [listening |-> FALSE, queried |-> Null, received |-> <<>>, state |-> "none"]

\* the domains with a strategy page
Domains == {"a.test", "b.test"}

\* chrome.storage.local without strategies
EmptyStore ==
  [d \in Domains |-> [stored |-> FALSE,
                     metadata |-> [lastUsed |-> 0, successCount |-> 0, failureCount |-> 0]]]

MessagingIdle == msgs = [m \in MsgIds |-> NoMessage]
ContentIdle == run = NoRun /\ renderers = <<>>
SidePanelIdle == activeTabId = Null /\ sidePanel = NoPanel
StorageIdle == store = EmptyStore /\ calls = <<>>

Init ==
  /\ InitEditor
  /\ MessagingIdle
  /\ ContentIdle
  /\ SidePanelIdle
  /\ StorageIdle

\* the page with the editor switched off, for the runs of the other components
PageAtRest == InitEditor /\ session = "look" /\ prefersLight = FALSE

Next ==
  \/ CmdStart
  \/ CmdStop
  \/ \E type \in ManualCommands : CmdDefault(type)
  \/ \E t \in PointerTargets : MouseMove(t)
  \/ \E t \in PointerTargets : Click(t)
  \/ \E k \in Keys : KeyDown(k)
  \/ \E in \in PanelInputs : PanelInput(in[1], in[2])
  \/ ClickReset
  \/ StaleClickReset
  \/ ClickSave
  \/ StaleClickSave
  \/ \E ok \in BOOLEAN : SaveResponse(ok)
  \/ ClickJumpParent
  \/ ClickToggleTheme
  \/ ClickRefreshChildren
  \/ \E i \in RowIndices : ClickSelectChild(i)
  \/ \E i \in DropIndices, j \in RowIndices : DropRow(i, j)
  \/ ToastTimer
  \/ ClickDock
  \/ HeaderDblClick
  \/ \E b \in Buttons, pt \in PointerPoints : HeaderPointerDown(b, pt)
  \/ \E pt \in PointerPoints : HeaderPointerMove(pt)
  \/ HeaderPointerUp
  \/ \E b \in Buttons, pt \in PointerPoints : HandlePointerDown(b, pt)
  \/ \E pt \in PointerPoints : HandlePointerMove(pt)
  \/ HandlePointerUp
  \/ \E vp \in Viewports : WindowResize(vp)
  \/ \E y \in ScrollOffsets : Scroll(y)

Spec == Init /\ [][Next]_vars

----------------------------------------------------------------------------
(* Runtime messaging (src/chrome/messaging.ts) and the background worker's *)
(* handler.  A message is followed from sendToBackground to the moment the *)
(* sender's promise resolves.  pc is the handler's position: the await it  *)
(* is suspended at, "fulfilled" or "rejected" once its promise is settled, *)
(* "responded" once sendResponse ran.                                      *)

\* the command types sent to the background worker: one that awaits several
\* browser calls, one that awaits storage, and one the worker does not know
BackgroundTypes == {"CAPTURE_PAGE", "SAVE_STRATEGY", "EXECUTE_STRATEGY"}

otherMsgs == <<run, renderers, activeTabId, sidePanel, store, calls>>
messagingFrame == <<domVars, fieldVars, panelVars, geomKeep, listeners, pendingSaves, emitted,
                    reply, rejected, prefersLight, edits, session, otherMsgs>>

InitMessaging ==
  /\ PageAtRest
  /\ MessagingIdle
  /\ ContentIdle
  /\ SidePanelIdle
  /\ StorageIdle

\* the handler's promise is fulfilled with the value v
Fulfil(m, v) == msgs' = [msgs EXCEPT ![m].pc = "fulfilled", ![m].value = v]

\* the handler's promise is rejected
Reject(m) == msgs' = [msgs EXCEPT ![m].pc = "rejected"]

\* ChromeMessaging.sendToBackground(command): chrome.runtime.sendMessage
sendToBackground(m, type, url) ==
  /\ msgs[m].pc = "unsent"
  /\ msgs' = [msgs EXCEPT ![m].type = type, ![m].tabUrl = url, ![m].pc = "sent"]
  /\ UNCHANGED messagingFrame

\* the listener onMessage registered: it calls the handler, which runs to its
\* first await, and returns true
onMessage(m) ==
  /\ msgs[m].pc = "sent"
  /\ CASE msgs[m].type = "CAPTURE_PAGE" -> msgs' = [msgs EXCEPT ![m].pc = "captureVisibleTab"]
       [] msgs[m].type = "SAVE_STRATEGY" -> msgs' = [msgs EXCEPT ![m].pc = "saveStrategy"]
       [] OTHER -> Fulfil(m, "failure")
  /\ UNCHANGED messagingFrame

\* await chrome.tabs.captureVisibleTab(...) settles; the handler goes on to
\* sendToContent(GET_DOM_STRUCTURE)
captureVisibleTab(m, captured) ==
  /\ msgs[m].pc = "captureVisibleTab"
  /\ IF captured THEN msgs' = [msgs EXCEPT ![m].pc = "sendToContent"] ELSE Reject(m)
  /\ UNCHANGED messagingFrame

\* await ChromeMessaging.sendToContent(...) resolves with domResult
sendToContent(m, domResult) ==
  /\ msgs[m].pc = "sendToContent"
  /\ IF domResult = "success" THEN msgs' = [msgs EXCEPT ![m].pc = "tabs.get"]
                              ELSE Fulfil(m, "failure")
  /\ UNCHANGED messagingFrame

\* await chrome.tabs.get(tabId) settles; new URL(tab.url ?? '') throws a
\* TypeError for a tab without URL
tabsGet(m, found) ==
  /\ msgs[m].pc = "tabs.get"
  /\ IF found /\ msgs[m].tabUrl THEN Fulfil(m, "success") ELSE Reject(m)
  /\ UNCHANGED messagingFrame

\* await storageManager.saveStrategy(...) resolves with a Result
saveStrategyCommand(m, saved) ==
  /\ msgs[m].pc = "saveStrategy"
  /\ Fulfil(m, IF saved THEN "success" ELSE "failure")
  /\ UNCHANGED messagingFrame

\* the sender's callback: resolve(...) settles the sender's promise once
Callback(m, result) ==
  [msgs[m] EXCEPT !.callbacks = @ + 1,
                  !.resolved = IF @ = "pending" THEN result ELSE @]

\* handler(...).then(sendResponse): the response reaches the sender's callback
\* with no lastError
sendResponse(m) ==
  /\ msgs[m].pc = "fulfilled"
  /\ msgs' = [msgs EXCEPT ![m] = [Callback(m, msgs[m].value) EXCEPT !.pc = "responded"]]
  /\ UNCHANGED messagingFrame

\* the browser closes the port of a message whose sendResponse was never
\* called (when it collects the function, or stops the worker): the sender's
\* callback runs with chrome.runtime.lastError set
PortClosed(m) ==
  /\ msgs[m].pc = "rejected"
  /\ msgs' = [msgs EXCEPT ![m] = [Callback(m, "failure") EXCEPT !.pc = "closed"]]
  /\ UNCHANGED messagingFrame

\* the steps the browser's event loop is bound to take
HandlerStep ==
  \E m \in MsgIds :
    \/ onMessage(m)
    \/ \E captured \in BOOLEAN : captureVisibleTab(m, captured)
    \/ \E domResult \in {"success", "failure"} : sendToContent(m, domResult)
    \/ \E found \in BOOLEAN : tabsGet(m, found)
    \/ \E saved \in BOOLEAN : saveStrategyCommand(m, saved)
    \/ sendResponse(m)

NextMessaging ==
  \/ \E m \in MsgIds, type \in BackgroundTypes, url \in BOOLEAN : sendToBackground(m, type, url)
  \/ \E m \in MsgIds : onMessage(m)
  \/ \E m \in MsgIds, captured \in BOOLEAN : captureVisibleTab(m, captured)
  \/ \E m \in MsgIds, domResult \in {"success", "failure"} : sendToContent(m, domResult)
  \/ \E m \in MsgIds, found \in BOOLEAN : tabsGet(m, found)
  \/ \E m \in MsgIds, saved \in BOOLEAN : saveStrategyCommand(m, saved)
  \/ \E m \in MsgIds : sendResponse(m)
  \/ \E m \in MsgIds : PortClosed(m)

\* Every message sent is delivered and every handler step that can be taken is
\* taken; when the browser closes a port is left open.
SpecMessaging == InitMessaging /\ [][NextMessaging]_vars /\ WF_vars(HandlerStep)

\* the message reached the handler
Delivered(m) == msgs[m].pc \notin {"unsent", "sent"}

\* C34: every message delivered to the handler leads to the sender's promise
\* resolving with a success-or-failure result, through exactly one call of its
\* callback, also when the handler's processing fails
C34_EveryMessageAnswered ==
  \A m \in MsgIds :
    Delivered(m) ~> (msgs[m].resolved \in {"success", "failure"} /\ msgs[m].callbacks = 1)

----------------------------------------------------------------------------
(* Strategy execution in the content script: the EXECUTE_STRATEGY case of  *)
(* src/chrome/content.ts, TabSwitcherExtractor.execute and GridRenderer.   *)
(* A configured tab is described by what the page does with it: whether    *)
(* findElement finds its trigger and its capture element, or the lookup or *)
(* the click throws.  A view is its id (the k of `view-k`) and its name,   *)
(* for which the tab's place in the configuration stands.                  *)

MaxTabs == 2
MaxRenderers == 3

\* what the page does with a configured tab
TabOutcomes ==
  {[trigger |-> "found", capture |-> c] : c \in {"found", "missing", "throws"}}
    \cup {[trigger |-> t, capture |-> "found"] : t \in {"missing", "throws"}}

\* config.tabs
TabConfigs == UNION {[1..n -> TabOutcomes] : n \in 0..MaxTabs}

\* command.strategy.extractorType: the registered type and another one
ExtractorTypes == {"tab-switcher", "carousel"}

\* ExtractorRegistry.get(type) finds an extractor
Registered(type) == type = "tab-switcher"

executionFrame == <<domVars, fieldVars, panelVars, geomKeep, listeners, pendingSaves, emitted,
                    reply, rejected, prefersLight, edits, session, msgs, activeTabId, sidePanel,
                    store, calls>>

InitExecution ==
  /\ PageAtRest
  /\ MessagingIdle
  /\ ContentIdle
  /\ SidePanelIdle
  /\ StorageIdle

\* new GridRenderer()
NewGridRenderer == [container |-> FALSE, closeButton |-> FALSE, cards |-> 0]

\* GridRenderer.cleanup(): this renderer's grid and button leave the page
cleanup(r) == [r EXCEPT !.container = FALSE, !.closeButton = FALSE]

\* GridRenderer.render(views)
render(r, views) ==
  [cleanup(r) EXCEPT !.container = TRUE, !.closeButton = TRUE, !.cards = Len(views)]

\* the id number of the next view, from the tab's place i
viewIdOfTab(views, i) == i - 1

\* the id number of the next view: `view-${views.length}`
viewId(views, i) == Len(views)

\* the content script receives EXECUTE_STRATEGY: the extractor is looked up
\* and execute() starts its loop
ExecuteStrategy(type, tabs) ==
  /\ run.pc \in {"idle", "done"}
  /\ Len(renderers) < MaxRenderers
  /\ run' = IF Registered(type)
              THEN [pc |-> "loop", tabs |-> tabs, i |-> 1, views |-> <<>>, result |-> "none"]
              ELSE [pc |-> "done", tabs |-> tabs, i |-> 0, views |-> <<>>,
                    result |-> "Extractor not found"]
  /\ UNCHANGED <<renderers, executionFrame>>

\* the loop body up to `await this.wait(tab.waitMs)`: a missing trigger
\* continues with the next tab, and so does the catch block
TabTrigger ==
  /\ run.pc = "loop"
  /\ run.i <= Len(run.tabs)
  /\ run' = IF run.tabs[run.i].trigger = "found"
              THEN [run EXCEPT !.pc = "wait"]
              ELSE [run EXCEPT !.i = @ + 1]
  /\ UNCHANGED <<renderers, executionFrame>>

\* the loop body after the wait
TabCapture ==
  /\ run.pc = "wait"
  /\ run' = IF run.tabs[run.i].capture = "found"
              THEN [run EXCEPT !.pc = "loop", !.i = @ + 1,
                               !.views = Append(@, [id |-> viewId(run.views, run.i),
                                                    name |-> run.i])]
              ELSE [run EXCEPT !.pc = "loop", !.i = @ + 1]
  /\ UNCHANGED <<renderers, executionFrame>>

\* execute() returns and the handler renders the views with a GridRenderer
\* of its own
ExecuteReturns ==
  /\ run.pc = "loop"
  /\ run.i > Len(run.tabs)
  /\ IF Len(run.views) > 0
       THEN /\ run' = [run EXCEPT !.pc = "done", !.result = "success"]
            /\ renderers' = Append(renderers, render(NewGridRenderer, run.views))
       ELSE /\ run' = [run EXCEPT !.pc = "done", !.result = "No views extracted"]
            /\ UNCHANGED renderers
  /\ UNCHANGED executionFrame

\* a click on the close button of the k-th rendering
CloseClick(k) ==
  /\ k \in DOMAIN renderers
  /\ renderers[k].closeButton
  /\ renderers' = [renderers EXCEPT ![k] = cleanup(@)]
  /\ UNCHANGED <<run, executionFrame>>

NextExecution ==
  \/ \E type \in ExtractorTypes, tabs \in TabConfigs : ExecuteStrategy(type, tabs)
  \/ TabTrigger
  \/ TabCapture
  \/ ExecuteReturns
  \/ \E k \in 1..MaxRenderers : CloseClick(k)

SpecExecution == InitExecution /\ [][NextExecution]_vars

\* the view grids and the close buttons in the document
GridsInDocument == {k \in DOMAIN renderers : renderers[k].container}
CloseButtonsInDocument == {k \in DOMAIN renderers : renderers[k].closeButton}

\* C36: after any sequence of EXECUTE_STRATEGY commands the document holds
\* at most one view grid and at most one grid close button
C36_OneGrid ==
  /\ Cardinality(GridsInDocument) <= 1
  /\ Cardinality(CloseButtonsInDocument) <= 1

\* the places, in order, of the first n configured tabs whose trigger and
\* capture element are both found
FoundTabs(tabs, n) ==
  SelectSeq([i \in 1..n |-> i],
            LAMBDA i : tabs[i].trigger = "found" /\ tabs[i].capture = "found")

\* the views of the tabs in the sequence found
ViewsOf(found) == [k \in 1..Len(found) |-> [id |-> k - 1, name |-> found[k]]]

\* C40: execute() has exactly one view for each tab gone through whose
\* trigger and capture element were found, in configuration order with the
\* ids view-0, view-1, ...; tabs that are missing something or throw are
\* skipped; and it returns 'No views extracted' if and only if it has no view
C40_ViewsOfFoundTabs ==
  run.pc \in {"loop", "wait"} \/ (run.pc = "done" /\ run.result # "Extractor not found") =>
    LET found == FoundTabs(run.tabs, run.i - 1)
    IN /\ run.views = ViewsOf(found)
       /\ run.pc = "done" =>
            /\ run.i = Len(run.tabs) + 1
            /\ run.result = (IF found = <<>> THEN "No views extracted" ELSE "success")

\* execute() returned the view of a second tab after the first tab threw
C40_SecondTabAfterThrow ==
  /\ run.pc = "done"
  /\ Len(run.tabs) = 2
  /\ run.tabs[1].trigger = "throws"
  /\ run.result = "success"
  /\ run.views = <<[id |-> 0, name |-> 2]>>

----------------------------------------------------------------------------
(* The side panel's message listener (src/unnamed/part_000, lines 5-40).   *)
(* sidePanel.state is what renderState was last called with;               *)
(* sidePanel.queried and sidePanel.received are history: the result of     *)
(* resolveActiveTab and the messages delivered to the listener since.      *)

MaxReceived == 3

\* the ids of the tabs that send messages (chrome's tab ids are positive)
TabIds == {"tab 1", "tab 2"}

\* sender.tab?.id of a sender without a tab
NoSenderTab == "undefined"

\* message.payload of MANUAL_STATE_UPDATED
Payloads == {"state 1", "state 2"}

\* the runtime messages that reach the side panel, with their sender
PanelMessages ==
  {[type |-> "MANUAL_STATE_UPDATED", tab |-> t, payload |-> p] :
     t \in TabIds \cup {NoSenderTab}, p \in Payloads}
    \cup {[type |-> "DISPLAY_VIEWS", tab |-> t, payload |-> "none"] :
            t \in TabIds \cup {NoSenderTab}}

sidePanelFrame == <<domVars, fieldVars, panelVars, geomKeep, listeners, pendingSaves, emitted,
                    reply, rejected, prefersLight, edits, session, msgs, run, renderers,
                    store, calls>>

InitSidePanel ==
  /\ PageAtRest
  /\ MessagingIdle
  /\ ContentIdle
  /\ SidePanelIdle
  /\ StorageIdle

\* init(): resolveActiveTab() with the tab chrome.tabs.query found, if any,
\* then setupMessageListener().  (The refreshState() that follows renders
\* nothing: the content script answers MANUAL_GET_STATE with a failure.)
resolveActiveTab(tab) ==
  /\ ~sidePanel.listening
  /\ activeTabId' = tab
  /\ sidePanel' = [sidePanel EXCEPT !.listening = TRUE, !.queried = tab]
  /\ UNCHANGED sidePanelFrame

\* the listener takes over the sender's tab whatever activeTabId is
adoptsAlways(tab) == tab # NoSenderTab

\* activeTabId === null && sender.tab?.id
adopts(tab) == activeTabId = Null /\ tab # NoSenderTab

\* the listener of setupMessageListener receives a message
OnRuntimeMessage(message) ==
  /\ sidePanel.listening
  /\ Len(sidePanel.received) < MaxReceived
  /\ LET known == message.type = "MANUAL_STATE_UPDATED"
         tabId == IF known /\ adopts(message.tab) THEN message.tab ELSE activeTabId
         renders == known /\ message.tab = tabId
     IN /\ activeTabId' = tabId
        /\ sidePanel' = [sidePanel EXCEPT !.received = Append(@, message),
                                          !.state = IF renders THEN message.payload ELSE @]
  /\ UNCHANGED sidePanelFrame

NextSidePanel ==
  \/ \E tab \in TabIds \cup {Null} : resolveActiveTab(tab)
  \/ \E message \in PanelMessages : OnRuntimeMessage(message)

SpecSidePanel == InitSidePanel /\ [][NextSidePanel]_vars

\* the message the listener received in this step
Received == sidePanel'.received[Len(sidePanel'.received)]

\* C37: a message is rendered only if it is a MANUAL_STATE_UPDATED whose
\* sender's tab id is activeTabId; with activeTabId null such a message from a
\* tab sets activeTabId to that tab's id; no message changes an activeTabId
\* that is set; a message of another type, from another tab or without a tab
\* leaves the rendered state as it is
C37_RendersActiveTabOnly ==
  [][Len(sidePanel'.received) > Len(sidePanel.received) =>
       LET ofTab == Received.type = "MANUAL_STATE_UPDATED" /\ Received.tab \in TabIds
       IN /\ activeTabId' = (IF activeTabId = Null /\ ofTab THEN Received.tab ELSE activeTabId)
          /\ sidePanel'.state = (IF ofTab /\ Received.tab = activeTabId'
                                   THEN Received.payload ELSE sidePanel.state)]_vars

\* the panel took over the first sender's tab and then left a state update
\* from the other tab unrendered
C37_OtherTabIgnored ==
  /\ sidePanel.queried = Null
  /\ sidePanel.received = <<[type |-> "MANUAL_STATE_UPDATED", tab |-> "tab 1", payload |-> "state 1"],
                            [type |-> "MANUAL_STATE_UPDATED", tab |-> "tab 2", payload |-> "state 2"]>>
  /\ activeTabId = "tab 1"
  /\ sidePanel.state = "state 1"

----------------------------------------------------------------------------
(* Stored strategies: StorageManager (src/core/storage/manager.ts) over    *)
(* chrome.storage.local, and the popup's execute button (src/ui/popup/     *)
(* popup.ts).  Of a stored strategy only the metadata is followed.  A call *)
(* is an updateMetadata call made directly ("update") or a click on the    *)
(* execute button ("click"), which ends in an updateMetadata call of its   *)
(* own.  A time stamp taken by call c with Date.now() is the number c; the *)
(* strategy was created at 0.                                              *)

MaxCalls == 2
CallIds == 1..MaxCalls

\* the metadata GENERATE_STRATEGY stores with a new strategy
FreshMetadata == [lastUsed |-> 0, successCount |-> 0, failureCount |-> 0]

\* the updates the direct calls of the model pass to updateMetadata
Updates(c) == {[successCount |-> 5], [failureCount |-> 1], [lastUsed |-> c]}

NoCall == [kind |-> "none", pc |-> "none", domain |-> "none", update |-> <<>>,
           read |-> FreshMetadata, executed |-> "none", result |-> "none"]

storageFrame == <<domVars, fieldVars, panelVars, geomKeep, listeners, pendingSaves, emitted,
                  reply, rejected, prefersLight, edits, session, msgs, run, renderers,
                  activeTabId, sidePanel>>

InitStorage ==
  /\ PageAtRest
  /\ MessagingIdle
  /\ ContentIdle
  /\ SidePanelIdle
  /\ store = EmptyStore
  /\ calls = [c \in CallIds |-> NoCall]

\* { ...metadata, ...update }
Spread(metadata, update) ==
  [f \in DOMAIN metadata |-> IF f \in DOMAIN update THEN update[f] ELSE metadata[f]]

\* the background worker stores the strategy it generated for a domain
GenerateStrategy(d) ==
  /\ ~store[d].stored
  /\ store' = [store EXCEPT ![d] = [stored |-> TRUE, metadata |-> FreshMetadata]]
  /\ UNCHANGED <<calls, storageFrame>>

\* updateMetadata(domain, update) is called and awaits getStrategy
updateMetadata(c, d, update) ==
  /\ calls[c].kind = "none"
  /\ calls' = [calls EXCEPT ![c] = [NoCall EXCEPT !.kind = "update", !.pc = "getStrategy",
                                                  !.domain = d, !.update = update]]
  /\ UNCHANGED <<store, storageFrame>>

\* getStrategy resolves inside updateMetadata: without a strategy the call
\* ends with 'Strategy not found', otherwise it goes on to saveStrategy with
\* the strategy it read
getStrategy(c, got) ==
  /\ calls[c].pc = "getStrategy"
  /\ LET d == calls[c].domain
     IN calls' = IF got /\ store[d].stored
                   THEN [calls EXCEPT ![c].pc = "saveStrategy", ![c].read = store[d].metadata]
                   ELSE [calls EXCEPT ![c].pc = "done", ![c].result = "Strategy not found"]
  /\ UNCHANGED <<store, storageFrame>>

\* saveStrategy(domain, updated): storageArea.set settles
saveStrategy(c, saved) ==
  /\ calls[c].pc = "saveStrategy"
  /\ LET d == calls[c].domain
     IN IF saved
          THEN /\ store' = [store EXCEPT ![d] = [stored |-> TRUE,
                                                 metadata |-> Spread(calls[c].read, calls[c].update)]]
               /\ calls' = [calls EXCEPT ![c].pc = "done", ![c].result = "ok"]
          ELSE /\ calls' = [calls EXCEPT ![c].pc = "done", ![c].result = "storage error"]
               /\ UNCHANGED store
  /\ UNCHANGED storageFrame

\* a click on the execute button in a popup over a page of domain d; the
\* handler awaits storageManager.getStrategy(domain)
ExecuteClick(c, d) ==
  /\ calls[c].kind = "none"
  /\ calls' = [calls EXCEPT ![c] = [NoCall EXCEPT !.kind = "click", !.pc = "strategyResult",
                                                  !.domain = d]]
  /\ UNCHANGED <<store, storageFrame>>

\* the click handler has its strategyResult: without a stored strategy it
\* ends, otherwise it awaits executeStrategy(...)
ClickStrategyResult(c, got) ==
  /\ calls[c].pc = "strategyResult"
  /\ LET d == calls[c].domain
     IN calls' = IF got /\ store[d].stored
                   THEN [calls EXCEPT ![c].pc = "executeStrategy", ![c].read = store[d].metadata]
                   ELSE [calls EXCEPT ![c].pc = "done"]
  /\ UNCHANGED <<store, storageFrame>>

\* updateUsageMetadata's update, from the strategy the click handler read
updateUsage(c) ==
  [lastUsed |-> c, successCount |-> calls[c].read.successCount + 1]

\* executeStrategy(...) returns (it shows an error or closes the popup, and
\* returns nothing) and the handler calls updateUsageMetadata, which calls
\* updateMetadata
executeStrategy(c, executed) ==
  /\ calls[c].pc = "executeStrategy"
  /\ calls' = [calls EXCEPT ![c].pc = "getStrategy", ![c].executed = executed,
                            ![c].update = updateUsage(c)]
  /\ UNCHANGED <<store, storageFrame>>

\* window.close() after a successful execution: the popup's page may be gone
\* before the handler's remaining steps run
PopupClosed(c) ==
  /\ calls[c].kind = "click"
  /\ calls[c].executed = "success"
  /\ calls[c].pc \in {"getStrategy", "saveStrategy"}
  /\ calls' = [calls EXCEPT ![c].pc = "done", ![c].result = "popup closed"]
  /\ UNCHANGED <<store, storageFrame>>

NextStorage ==
  \/ \E d \in Domains : GenerateStrategy(d)
  \/ \E c \in CallIds, d \in Domains : \E update \in Updates(c) : updateMetadata(c, d, update)
  \/ \E c \in CallIds, got \in BOOLEAN : getStrategy(c, got)
  \/ \E c \in CallIds, saved \in BOOLEAN : saveStrategy(c, saved)
  \/ \E c \in CallIds, d \in Domains : ExecuteClick(c, d)
  \/ \E c \in CallIds, got \in BOOLEAN : ClickStrategyResult(c, got)
  \/ \E c \in CallIds, executed \in {"success", "failure"} : executeStrategy(c, executed)
  \/ \E c \in CallIds : PopupClosed(c)

SpecStorage == InitStorage /\ [][NextStorage]_vars

\* the updateMetadata calls on domain d that returned success
Updated(d) == {c \in CallIds : calls[c].domain = d /\ calls[c].result = "ok"}

\* all calls have returned, and those that updated d named different fields
SettledApart(d) ==
  /\ \A c \in CallIds : calls[c].pc \in {"none", "done"}
  /\ \A c1, c2 \in Updated(d) :
       c1 # c2 => DOMAIN calls[c1].update \cap DOMAIN calls[c2].update = {}

\* C38: after any interleaving of updateMetadata calls on one domain that
\* name different fields the stored metadata has every call's update and
\* leaves the other fields as they were; a call on a domain without a
\* strategy returns 'Strategy not found' and writes nothing
C38_NoUpdateLost ==
  \A d \in Domains :
    /\ SettledApart(d) /\ store[d].stored =>
         \A f \in DOMAIN FreshMetadata :
           /\ \A c \in Updated(d) : f \in DOMAIN calls[c].update => store[d].metadata[f] = calls[c].update[f]
           /\ (\A c \in Updated(d) : f \notin DOMAIN calls[c].update) =>
                store[d].metadata[f] = FreshMetadata[f]
    /\ ~store[d].stored => \A c \in CallIds : calls[c].domain = d => calls[c].result # "ok"

\* C39: a click on the execute button changes the stored metadata only when
\* the execution of the strategy in the tab succeeded
C39_CountedOnSuccessOnly ==
  [][\A c \in CallIds :
       (calls[c].kind = "click" /\ calls[c].pc = "saveStrategy" /\ calls'[c].pc = "done"
          /\ store' # store) => calls[c].executed = "success"]_vars

----------------------------------------------------------------------------
(* Properties                                                              *)

\* the editor's nodes that are in the document
ChromeInDocument == {n \in ChromeNodes : Attached(content, n)}

\* t is, or lies inside, an element whose id is the panel's or the HUD's
ByChromeId(t) ==
  \E m \in AncestorsOrSelf(content, t) :
    "id" \in DOMAIN attrs[m] /\ attrs[m]["id"] \in {"llm-manual-editor", "llm-manual-hud"}

\* the child of n that is an HTML element and has exactly i HTML elements
\* among its preceding siblings; Null when there is none
HtmlChildAt(n, i) ==
  LET items == content[n]
      isHtml(k) == items[k].kind = "elem" /\ items[k].v # "S"
      at == {k \in 1..Len(items) :
               isHtml(k) /\ Cardinality({j \in 1..(k - 1) : isHtml(j)}) = i}
  IN IF at = {} THEN Null ELSE items[CHOOSE k \in at : TRUE].v

\* C1: whenever the editor is inactive, and so after every stop, no HUD,
\* highlight box, panel or injected stylesheet is in the document, the editor
\* refers to none of them, and no listener, timer or gesture of the editor is
\* left registered, so that no later event reaches the editor.
C1_CleanTeardown ==
  ~active =>
    /\ ChromeInDocument = {}
    /\ hud = Null /\ highlightBox = Null /\ editorPanel = Null /\ styleElement = Null
    /\ toastElement = Null /\ ~toastTimeout
    /\ listeners = {}
    /\ ~dragging /\ grips = <<>>

\* a stop command has just succeeded on an editor whose panel had been used
C1_StoppedAfterEditing == ~active /\ reply = "ok" /\ edits > 0

\* C2: a start() on an active editor answers success and changes nothing,
\* and every start() leaves the editor active with its HUD and its stylesheet
\* in the document and each of the four global listeners registered.
C2_StartYieldsOneOfEach ==
  [][CmdStart =>
       /\ active => (UNCHANGED <<domVars, fieldVars, listeners>> /\ reply' = "ok")
       /\ active'
       /\ hud' # Null /\ Attached(content', "hud")
       /\ styleElement' # Null /\ Attached(content', "style")
       /\ listeners' = GlobalListeners]_vars

\* C3: a reset leaves the selected element with exactly the snapshot's
\* attributes, the snapshot's style attribute string and the snapshot's text.
C3_ResetRoundTrip ==
  [][(ClickReset /\ selectedElement # Null /\ ~snapshot.isNull) =>
       /\ TextContent(content', selectedElement) = snapshot.text
       /\ attrs'[selectedElement] = snapshot.attributes
       /\ styleAttr'[selectedElement] = snapshot.style]_vars

\* a reset has brought an element whose attributes and style were edited
\* back to its snapshot
C3_ResetAfterEdits ==
  /\ selectedElement # Null
  /\ toastText = "Restored original styles"
  /\ touched = {"attribute", "style"}
  /\ attrs[selectedElement] = snapshot.attributes
  /\ styleAttr[selectedElement] = snapshot.style
  /\ snapshot.style.present

\* C4: when the snapshot records no style attribute, the selected element
\* has no style attribute after a reset.
C4_ResetRemovesStyle ==
  [][(ClickReset /\ selectedElement # Null /\ ~snapshot.isNull /\ ~snapshot.style.present) =>
       ~styleAttr'[selectedElement].present]_vars

\* a reset has removed the style attribute that style edits had given an
\* element selected without one
C4_StyleEditedThenReset ==
  /\ selectedElement # Null
  /\ toastText = "Restored original styles"
  /\ "style" \in touched
  /\ ~snapshot.style.present
  /\ ~styleAttr[selectedElement].present

\* a click on the editor's own elements: on a node marked by the panel's or
\* the HUD's id, or on one of the panel's buttons
ChromeClick ==
  \/ \E t \in PointerTargets : Click(t) /\ ByChromeId(t)
  \/ ClickReset \/ ClickSave \/ ClickJumpParent \/ ClickToggleTheme
  \/ ClickRefreshChildren \/ ClickDock
  \/ \E i \in RowIndices : ClickSelectChild(i)

\* C5 as stated: no click on the panel, the HUD or their descendants changes
\* the selection.
C5_ChromeClickKeepsSelection == [][ChromeClick => UNCHANGED selectedElement]_vars

\* C5: a click on or inside an element that carries the panel's or the HUD's
\* id never selects its target: it leaves the selection alone, except that
\* the HUD's Exit button clears it (stop); of the panel's buttons, only
\* Parent and a child row's Edit change the selection.
C5_ChromeClickSelection ==
  [][/\ \A t \in PointerTargets :
          (Click(t) /\ ByChromeId(t)) =>
            IF t = "hudExit" THEN selectedElement' = Null ELSE UNCHANGED selectedElement
     /\ (ClickReset \/ ClickSave \/ ClickToggleTheme \/ ClickRefreshChildren \/ ClickDock)
          => UNCHANGED selectedElement]_vars

\* a button of the panel was pressed and the selection is still there
C5_ButtonPressedSelectionKept ==
  selectedElement = "D" /\ toastText = "Refreshed child list"

\* a step of one of the six mutators that took effect
MutatorStep ==
  \/ \E in \in PanelInputs : PanelInput(in[1], in[2])
  \/ ClickReset
  \/ ClickJumpParent /\ selectedElement' # selectedElement
  \/ \E i \in RowIndices : ClickSelectChild(i) /\ selectedElement' # selectedElement

\* C6: every text, attribute or style edit, reset, select-parent and
\* select-child sends exactly one MANUAL_STATE_UPDATED message.
C6_BroadcastOnMutation == [][MutatorStep => emitted' = <<"MANUAL_STATE_UPDATED">>]_vars

\* C7: the snapshot is non-null exactly when an element is selected, and an
\* inactive editor has no selection, no snapshot and no hovered element.
C7_SnapshotIffSelection ==
  /\ snapshot.isNull <=> selectedElement = Null
  /\ ~active => (selectedElement = Null /\ snapshot.isNull /\ hoverElement = Null)

\* an element is selected and another is hovered
C7_SelectedAndHovering ==
  active /\ selectedElement = "D" /\ ~snapshot.isNull /\ hoverElement = "C"

\* a step that is no selection, no stop and no successful save
OtherOperation ==
  \/ \E in \in PanelInputs : PanelInput(in[1], in[2])
  \/ \E i \in DropIndices, j \in RowIndices : DropRow(i, j)
  \/ ClickReset \/ ClickSave \/ SaveResponse(FALSE)
  \/ ClickToggleTheme \/ ClickRefreshChildren \/ ToastTimer
  \/ \E t \in PointerTargets : MouseMove(t)
  \/ ClickDock \/ HeaderDblClick \/ HeaderPointerUp \/ HandlePointerUp
  \/ \E b \in Buttons, pt \in PointerPoints : HeaderPointerDown(b, pt) \/ HandlePointerDown(b, pt)
  \/ \E pt \in PointerPoints : HeaderPointerMove(pt) \/ HandlePointerMove(pt)
  \/ \E vp \in Viewports : WindowResize(vp)

\* C8: no edit, reorder, reset, dock cycling, drag, resize, hover, theme
\* toggle, refresh, save request or failed save changes the stored snapshot.
C8_SnapshotFrame == [][OtherOperation => snapshot' = snapshot]_vars

\* the selected element was edited and its snapshot still holds the text it
\* had when it was selected
C8_EditedSnapshotKept ==
  /\ selectedElement # Null
  /\ "text" \in touched
  /\ snapshot.text # TextContent(content, selectedElement)

MoveItem(seq, s, t) ==
  [i \in 1..Len(seq) |->
     IF i = t + 1 THEN seq[s + 1]
     ELSE IF s < t /\ s + 1 <= i /\ i <= t THEN seq[i + 1]
     ELSE IF t < s /\ t + 1 < i /\ i <= s + 1 THEN seq[i - 1]
     ELSE seq[i]]

\* the HTML element children of n, in document order
HtmlChildrenOf(c, n) ==
  LET isHtml(x) == x.kind = "elem" /\ x.v # "S"
      items == SelectSeq(c[n], isHtml)
  IN [i \in 1..Len(items) |-> items[i].v]

\* the element children of n, in document order
ElementChildrenOf(c, n) ==
  LET isElem(x) == x.kind = "elem"
      items == SelectSeq(c[n], isElem)
  IN [i \in 1..Len(items) |-> items[i].v]

\* C11 as stated: for valid distinct indices into the element children of
\* the selection, a reorder takes the source element child out and puts it
\* back at the target's position.
C11_ReorderElementChildren ==
  [][\A s \in DropIndices, t \in RowIndices :
       LET before == ElementChildrenOf(content, selectedElement)
       IN (DropRow(s, t) /\ s # t /\ s >= 0 /\ s < Len(before) /\ t < Len(before)) =>
            ElementChildrenOf(content', selectedElement) = MoveItem(before, s, t)]_vars

\* C11: a reorder counts only the children that are HTML elements: for
\* valid distinct indices s and t into that list, the HTML element children
\* afterwards are the list with item s taken out and put back at position
\* t, the moved child lies immediately after the target when s < t and
\* immediately before it when s > t, and every other child node of the
\* selection keeps its place relative to the others.
C11_ReorderHtmlChildren ==
  [][\A s \in DropIndices, t \in RowIndices :
       LET before == HtmlChildrenOf(content, selectedElement)
           after == content'[selectedElement]
           notSource(x) == x # El(before[s + 1])
           pos(n) == CHOOSE i \in 1..Len(after) : after[i] = El(n)
       IN (DropRow(s, t) /\ s # t /\ s >= 0 /\ s < Len(before) /\ t < Len(before)) =>
            /\ HtmlChildrenOf(content', selectedElement) = MoveItem(before, s, t)
            /\ SelectSeq(after, notSource) = SelectSeq(content[selectedElement], notSource)
            /\ Len(after) = Len(content[selectedElement])
            /\ pos(before[s + 1]) = pos(before[t + 1]) + (IF s < t THEN 1 ELSE -1)]_vars

\* the first of three HTML element children was dropped on the third
C11_FirstMovedLast ==
  /\ selectedElement = "D"
  /\ HtmlChildrenOf(content, "D") = <<"E", "F", "C">>
  /\ touched = {"order"}
  /\ edits = 1
  /\ toastText = "Reordered elements"

\* C12: a drop whose indices are equal, or one of whose indices has no HTML
\* element child of the selection at it when the drop happens, changes no
\* child list at all.
C12_ReorderNoOp ==
  [][\A s \in DropIndices, t \in RowIndices :
       (DropRow(s, t) /\ (s = t \/ s < 0 \/ HtmlChildAt(selectedElement, s) = Null
                                 \/ HtmlChildAt(selectedElement, t) = Null)) =>
         UNCHANGED content]_vars

\* a row was dropped although the selection's children had been replaced
\* by text since the rows were listed
C12_StaleRowDropped ==
  /\ selectedElement = "D"
  /\ touched = {"text", "drop"}
  /\ rows = 3
  /\ HtmlChildrenOf(content, "D") = <<>>

\* the dock state that follows d in the cycle
DockAfter(d) ==
  CASE d = "top-right" -> "top-left"
    [] d = "top-left" -> "bottom-left"
    [] d = "bottom-left" -> "bottom-right"
    [] d = "bottom-right" -> "floating"
    [] d = "floating" -> "top-right"

\* the dock state after k applications of the dock-cycle action to d
RECURSIVE DockTimes(_, _)
DockTimes(k, d) == IF k = 0 THEN d ELSE cycleDockState(DockTimes(k - 1, d))

\* a step of the dock-cycle action: the panel's dock button or a double
\* click on its header
DockCycleStep == ClickDock \/ HeaderDblClick

\* C13: every dock-cycle action moves the dock state one step along
\* top-right, top-left, bottom-left, bottom-right, floating, top-right; from
\* the state it starts in, five applications lead back to that state and
\* one to four applications do not.
C13_DockCycle ==
  [][DockCycleStep =>
       /\ dockState' = DockAfter(dockState)
       /\ DockTimes(5, dockState) = dockState
       /\ \A k \in 1..4 : DockTimes(k, dockState) # dockState]_vars

\* the dock-cycle action has brought the panel back to floating
C13_BackToFloating ==
  /\ dockState = "floating"
  /\ toastText = "Docked to floating"
  /\ frame.docked = "floating"

\* a step that re-frames the panel: dock cycling, a click that selects,
\* a window resize
ReframeStep ==
  \/ DockCycleStep
  \/ \E t \in PointerTargets : Click(t)
  \/ \E vp \in Viewports : WindowResize(vp)

\* the applied geometry f anchors the panel to the corner d
AnchoredAt(f, d) ==
  /\ f.docked = d
  /\ f.top = (IF d \in {"top-right", "top-left"} THEN Px(DockOffset) ELSE Auto)
  /\ f.bottom = (IF d \in {"bottom-right", "bottom-left"} THEN Px(DockOffset) ELSE Auto)
  /\ f.left = (IF d \in {"top-left", "bottom-left"} THEN Px(DockOffset) ELSE Auto)
  /\ f.right = (IF d \in {"top-right", "bottom-right"} THEN Px(DockOffset) ELSE Auto)

\* the coordinate v kept between the near margin and the far limit
ClampTo(v, near, far) == Min(Max(near, v), Max(near, far))

\* C14: a re-framing step that ends in a fixed dock state leaves the stored
\* floating coordinates as they were and anchors the panel, if there is
\* one, to that corner with the constant offset; a dock-cycle step that
\* ends in floating places the panel at the stored coordinates, clamped to
\* the viewport.
C14_DockKeepsFloatingPosition ==
  [][ReframeStep =>
       /\ dockState' # "floating" =>
             /\ panelPosition' = panelPosition
             /\ editorPanel' # Null => AnchoredAt(frame', dockState')
       /\ (DockCycleStep /\ dockState' = "floating" /\ editorPanel' # Null) =>
             LET rect == PanelRect(frame', viewport, TRUE)
                 left == ClampTo(panelPosition.x, 20, viewport.width - rect.width - 20)
                 top == ClampTo(panelPosition.y, 60, viewport.height - rect.height - 20)
             IN /\ frame'.left = Px(left) /\ frame'.top = Px(top)
                /\ frame'.right = Auto /\ frame'.bottom = Auto
                /\ panelPosition' = [x |-> left, y |-> top]]_vars

\* a panel that was dragged to the top left corner of the viewport has gone
\* through the four docks and is floating there again
C14_FloatingWhereDragged ==
  /\ dockState = "floating"
  /\ toastText = "Docked to floating"
  /\ panelPosition = [x |-> 20, y |-> 60]
  /\ frame.left = Px(20) /\ frame.top = Px(60)
  /\ viewport = InitViewport

\* C15: a pointer-down on the header with a button other than the primary
\* one changes neither dock state, position nor applied geometry and begins
\* no drag; a drag is in progress only from a primary pointer-down until
\* the next pointer-up or pointer-cancel; a pointer-move during a drag
\* leaves the dock state floating, and a pointer-move outside a drag
\* changes neither position, dock state nor applied geometry.
C15_HeaderDrag ==
  [][/\ \A b \in Buttons, pt \in PointerPoints :
          HeaderPointerDown(b, pt) =>
            /\ UNCHANGED <<dockState, panelPosition, frame>>
            /\ b # 0 => UNCHANGED <<dragging, dragOffset>>
     /\ (dragging' /\ ~dragging) => \E pt \in PointerPoints : HeaderPointerDown(0, pt)
     /\ HeaderPointerUp => ~dragging'
     /\ \A pt \in PointerPoints :
          HeaderPointerMove(pt) =>
            IF dragging
            THEN dockState' = "floating" /\ frame'.docked = "floating"
            ELSE UNCHANGED <<dockState, panelPosition, frame>>]_vars

\* a panel docked to the top right is being dragged by its header and has
\* become floating
C15_DraggedOutOfDock ==
  /\ dragging
  /\ dockState = "floating"
  /\ frame.docked = "floating"
  /\ toastText = "Docked to top right"

\* the stored and the applied floating position are equal and lie within
\* the margins of the viewport vp, for the panel's measured size
WithinViewport(f, pos, vp) ==
  LET rect == PanelRect(f, vp, TRUE)
  IN /\ f.left = Px(pos.x) /\ f.top = Px(pos.y)
     /\ 20 <= pos.x /\ pos.x <= Max(20, vp.width - rect.width - 20)
     /\ 60 <= pos.y /\ pos.y <= Max(60, vp.height - rect.height - 20)

\* C16: after every pointer-move of a header drag, and after every window
\* resize with a floating panel, the stored and applied position satisfies
\* 20 <= left <= max(20, viewport width - panel width - 20) and
\* 60 <= top <= max(60, viewport height - panel height - 20).
C16_FloatingClamped ==
  [][/\ \A pt \in PointerPoints :
          (HeaderPointerMove(pt) /\ dragging) =>
            WithinViewport(frame', panelPosition', viewport')
     /\ \A vp \in Viewports :
          (WindowResize(vp) /\ dockState = "floating" /\ editorPanel # Null) =>
            WithinViewport(frame', panelPosition', viewport')]_vars

\* the panel was dragged towards the bottom right beyond the viewport and
\* stopped at the far limits
C16_DraggedToFarLimit ==
  /\ dragging
  /\ viewport = InitViewport
  /\ panelPosition = [x |-> 620, y |-> 380]
  /\ frame.left = Px(620) /\ frame.top = Px(380)

\* the panel geometry a newly constructed editor has
InitialGeometry ==
  /\ dockState = "floating"
  /\ panelPosition = [x |-> InitViewport.width - 460, y |-> 80]
  /\ panelSize = [width |-> 360, height |-> 0]

\* C17: a click that selects while a panel is shown leaves dock state,
\* stored position and stored size as they were, and a stop leaves all
\* three at the values a newly constructed editor has.
C17_GeometryResetByStop ==
  [][/\ \A t \in PointerTargets :
          (Click(t) /\ editorPanel # Null /\ active') =>
            UNCHANGED <<dockState, panelPosition, panelSize>>
     /\ (CmdStop /\ active) => InitialGeometry']_vars

\* the attribute an attribute control of the panel edits
AttributeOfControl(control) ==
  CASE control = "llm-attr-id" -> "id"
    [] control = "llm-attr-title" -> "title"

\* C18: an empty value typed into an attribute control leaves the selected
\* element without that attribute, and an empty value typed into a style
\* control leaves its inline style without that property.
C18_EmptyValueClears ==
  [][\A in \in PanelInputs :
       (PanelInput(in[1], in[2]) /\ in[2] = "" /\ selectedElement # Null) =>
         /\ in[1] \in AttrControls =>
               AttributeOfControl(in[1]) \notin DOMAIN attrs'[selectedElement]
         /\ in[1] \in {"llm-text-color", "llm-font-size"} =>
               ~HasDecl(styleAttr'[selectedElement].decls, StyleProperty(in[1]))]_vars

\* C19: text that is not empty and not a number, left in the font-size
\* field, changes nothing in the inline style of the selected element.
C19_NonNumericRejected ==
  [][\A in \in PanelInputs :
       (/\ PanelInput(in[1], in[2])
        /\ in[1] = "llm-font-size" /\ in[2] # "" /\ in[2] \notin ValidNumbers) =>
         styleAttr' = styleAttr]_vars

\* a click on a Reset button, of the panel shown or of a removed one
ResetRequest == ClickReset \/ StaleClickReset

\* there is no selection or no snapshot
NothingToReset == selectedElement = Null \/ snapshot.isNull

EditorStateBesidesToast ==
  <<domVars, active, hoverElement, selectedElement, highlightBox, hud, editorPanel,
    styleElement, snapshot, toastElement, boxDisplay, boxRect, panelTheme, rows, geomPanel,
    geomKeep, listeners>>

\* a click on a save button, of the panel in the document or of a removed one
SaveClicked == ClickSave \/ StaleClickSave

C22_SaveOutcome ==
  [][\A ok \in BOOLEAN :
       (SaveResponse(ok) /\ selectedElement # Null) =>
         /\ UNCHANGED <<domVars, active, hoverElement, selectedElement, highlightBox, hud,
                        editorPanel, styleElement, toastElement, boxDisplay, boxRect, panelTheme,
                        rows, geomPanel, geomKeep, listeners>>
         /\ ~rejected'
         /\ IF ok
            THEN /\ snapshot'.text = TextContent(content, selectedElement)
                 /\ snapshot'.attributes = attrs[selectedElement]
                 /\ snapshot'.style = styleAttr[selectedElement]
                 /\ toastText' = "Saved manual layout"
            ELSE /\ snapshot' = snapshot
                 /\ toastText' = "Save failed"]_vars

\* an edited element was saved: the snapshot holds the edited text
C22_SavedAfterEdit ==
  /\ selectedElement # Null
  /\ toastText = "Saved manual layout"
  /\ "text" \in touched
  /\ pendingSaves = 0
  /\ snapshot.text = "x"
  /\ snapshot.text = TextContent(content, selectedElement)

\* C23 as stated: a response that arrives after stop() completes the save
\* without raising, leaves the page alone and leaves the editor inactive with
\* no selection and no snapshot.
C23_LateResponseHarmless ==
  [][\A ok \in BOOLEAN :
       (SaveResponse(ok) /\ ~active) =>
         /\ ~rejected'
         /\ UNCHANGED domVars
         /\ ~active' /\ selectedElement' = Null /\ snapshot'.isNull]_vars

\* C24: a stop command that finds the editor inactive is answered with the
\* failure 'Manual mode is not active' and changes neither the page nor any
\* field, listener, geometry or pending save of the editor.
C24_StopWhileInactive ==
  [][(CmdStop /\ ~active) =>
       /\ reply' \notin {"ok", "none"}
       /\ reply' = "Manual mode is not active"
       /\ ~rejected'
       /\ UNCHANGED <<domVars, fieldVars, panelVars, geomKeep, listeners, pendingSaves>>]_vars

\* a second stop was refused after a session in which the page was edited
\* had been stopped
C24_StoppedTwice ==
  /\ ~active
  /\ reply = "Manual mode is not active"
  /\ edits > 0
  /\ TextContent(content, "D") = "x"

\* a command of the side panel sent to the content script
EditorCommand == CmdStart \/ CmdStop \/ \E type \in ManualCommands : CmdDefault(type)

\* C25 as stated: every editor command is dispatched to an operation of the
\* editor and answered with a success or a failure result.
C25_CommandsDispatched ==
  [][EditorCommand => (reply' # "none" /\ reply' # "Unknown command")]_vars

\* the places at which node n is a child: parent and position
PlacesOf(n) ==
  UNION {{<<p, k>> : k \in {j \in DOMAIN content[p] : content[p][j] = El(n)}} : p \in Nodes}

\* C26: the document never holds more than one HUD, one highlight box, one
\* injected stylesheet or one panel (each is a child at one place at most, and
\* the panel and the panel it replaced are never both in the document), and
\* holds none of them while the editor is inactive.
C26_SingleChrome ==
  /\ \A n \in {"hud", "box", "style", "panel", "panelOld"} : Cardinality(PlacesOf(n)) <= 1
  /\ ~({"panel", "panelOld"} \subseteq ChromeInDocument)
  /\ ~active => ChromeInDocument = {}

\* the panel was selected and replaced by a new one, with the HUD, the box
\* and the stylesheet in the document
C26_PanelReplaced ==
  /\ active
  /\ selectedElement = "panelOld"
  /\ editorPanel = "panel"
  /\ {"hud", "box", "style", "panel"} \subseteq ChromeInDocument

\* the rectangle element e has in the viewport
RectOf(e) == BoundingRect(content, styleAttr, e, scrollY)

\* the elements the box can be tracking: the hovered and the selected one
Tracked == {hoverElement, selectedElement} \ {Null}

\* the box, which is positioned in the viewport (position: fixed), lies on a
\* tracked element
BoxInSync == \E e \in Tracked : boxRect = RectOf(e)

\* C27 as stated: a scroll or a window resize with the box shown leaves the
\* box on the rectangle of a tracked element.
C27_OverlayFollowsScroll ==
  [][(((\E y \in ScrollOffsets : Scroll(y)) \/ (\E vp \in Viewports : WindowResize(vp)))
        /\ boxDisplay = "block" /\ BoxInSync)
       => BoxInSync']_vars

\* C28 as stated: a pointer move over the panel or the HUD shows the box on
\* the selection, or hides it when nothing is selected; a pointer move over
\* any other element shows the box on that element.
C28_ChromeHoverFallsBack ==
  [][\A t \in HoverTargets :
       (MouseMove(t) /\ active /\ "mousemove" \in listeners) =>
         IF isManualUI(content, attrs, t)
         THEN IF selectedElement # Null
              THEN boxDisplay' = "block" /\ boxRect' = RectOf(selectedElement)
              ELSE boxDisplay' # "block"
         ELSE boxDisplay' = "block" /\ boxRect' = RectOf(t)]_vars

\* the element a step passes to updateHighlight: the page element that
\* becomes the selection or is hovered
Highlighted(e) ==
  \/ selectedElement' = e /\ selectedElement # e
  \/ MouseMove(e) /\ hoverElement' = e

\* C29 as stated: updateHighlight hides the box for an element whose
\* rectangle is 0 by 0 and shows it with the rectangle's size for any other.
C29_EmptyRectHidesOverlay ==
  [][\A e \in PageNodes :
       Highlighted(e) =>
         IF RectOf(e).width = 0 /\ RectOf(e).height = 0
         THEN boxDisplay' # "block"
         ELSE /\ boxDisplay' = "block"
              /\ boxRect'.width = RectOf(e).width
              /\ boxRect'.height = RectOf(e).height]_vars

\* C30 as stated: an edit in the panel that changes the size of the selected
\* element leaves the box, when shown, on the element's new rectangle.
C30_EditRecomputesHighlight ==
  [][\A in \in PanelInputs :
       (/\ PanelInput(in[1], in[2])
        /\ selectedElement # Null
        /\ boxDisplay = "block"
        /\ RectOf(selectedElement)' # RectOf(selectedElement))
       => boxRect' = RectOf(selectedElement)']_vars

\* a 'pointermove' of a resize gesture that is under way
ResizeMoveStep == grips # <<>> /\ \E pt \in PointerPoints : HandlePointerMove(pt)

\* C31 as stated: the applied width and height never go below the floor of
\* the frame, a resize move leaves the dock state and the stored position
\* alone, and a re-framing that follows a resize gives the panel the size the
\* gesture stored.
C31_ResizeSizeKept ==
  [][/\ ResizeMoveStep =>
          /\ frame'.width[1] >= PanelMinSize /\ frame'.height[1] >= PanelMinSize
          /\ UNCHANGED <<dockState, panelPosition>>
     /\ (ReframeStep /\ PanelLive /\ editorPanel' # Null /\ panelSize.height > 0) =>
          /\ panelSize' = panelSize
          /\ frame'.width = Px(panelSize.width)
          /\ frame'.height = Px(panelSize.height)]_vars

\* a 'pointerup' or 'pointercancel' that ends a gesture on the panel
GestureEnds == HeaderPointerUp \/ HandlePointerUp

SelectedSinceRequest ==
  pendingSaves > 0 /\ selectedElement # Null /\ "save" \notin touched

\* C33 as stated: the successful response to a save that was requested
\* before the current element was selected leaves the snapshot taken at its
\* selection in place.
C33_LateSaveKeepsSnapshot ==
  [][(SaveResponse(TRUE) /\ SelectedSinceRequest) => snapshot' = snapshot]_vars

\* the selected element has the element children it had when its snapshot
\* was taken: no text edit and no reorder was made since
ChildrenAsSnapshotted == "text" \notin touched /\ "order" \notin touched

\* C35 as stated, for a reset that no text edit and no reorder preceded: the
\* reset leaves the selected element its sequence of element children.
C35_ResetKeepsChildren ==
  [][(ClickReset /\ selectedElement # Null /\ ~snapshot.isNull /\ ChildrenAsSnapshotted) =>
       ElementChildrenOf(content', selectedElement) = ElementChildrenOf(content, selectedElement)]_vars

====
